---------------------------- MODULE Spec2Model ----------------------------
(***************************************************************************)
(* Pixel-Unwrapper: the rectangle packer (packing.py), the island merger   *)
(* (islands.py) and the grid builder (grids.py) as state machines.         *)
(*                                                                         *)
(* Each algorithm has its own specification (PackSpec, MergeSpec,          *)
(* GridSpec): its Init draws the call's arguments from bounded sets, its   *)
(* actions are the steps of the call, and the variables of the other       *)
(* algorithms stay at their idle values.                                   *)
(***************************************************************************)
EXTENDS Integers, Sequences, FiniteSets, TLC

\* ------------------------------------------------------------------------
\* Bounds of the model
\* ------------------------------------------------------------------------
\* pack_rects: number of rectangles, largest width/height, largest initial
\* space size.
MaxRects == 3
MaxDim == 2
MaxInitSpace == 2
\* pack_rects under fairness (termination): number of rectangles.
MaxLiveRects == 2
\* merge_overlapping_islands: number of islands, largest u coordinate of a
\* bound.
MaxIslands == 3
MaxCoord == 1
\* Grid: number of faces of the quad patch; number of defects of the faces
\* passed, a defect being a seam edge inside the patch or a patch face left
\* out.
MaxPatchFaces == 6
MaxDefects == 1
\* find_free_space_for_island: number of islands other than the target,
\* largest pixel coordinate of an island's rectangle and of the texture.
MaxOthers == 1
MaxPixel == 2
\* Grid.fold: largest width/height of the grid, number of cells of its
\* rectangle without a face, largest number of sections.
MaxFoldSize == 3
MaxHoles == 1
MaxSections == 2
\* PixelArray.copy_region_transformed: largest width/height of the pixel
\* arrays.
MaxTex == 3

\* Operators: number of selected islands, largest x of an island's bottom
\* left corner, largest width and height of an island.
MaxOpIslands == 2
MaxOpPos == 1
MaxOpDim == 2

\* get_islands_for_faces: number of faces of the mesh, number of different
\* (rounded uv, vertex index) keys.
MaxCcFaces == 3
MaxCcKeys == 2

\* realign_to_uv_map: the largest number of columns and of rows of the patch.
MaxRealignDim == 3

\* get_boundary_loops: number of faces (triangles) of the island.
MaxLoopFaces == 2
MaxCornerUv == 1
MaxCornerLoop == 4

VARIABLES
    \* ---- pack_rects (packing.py) ----
    rect_sizes,          \* argument: sequence of <<width, height>>
    initial_space_size,  \* argument
    rects,               \* enumerate(rect_sizes) sorted by height, descending
    output_positions,    \* sequence of <<idx, <<x, y>>>>, in placement order
    levels,              \* sequence of BoxPackingStrip records
    space_size,
    pack_k,              \* position of the for loop in rects (1-based)
    pack_pc,             \* "idle", "while", "for", "return", "done"
    positions,           \* the returned list of positions
    \* ---- merge_overlapping_islands (islands.py) ----
    islands,             \* the list of UVIsland records, rewritten in place
    merge_i,             \* i of the outer loop (0-based, as in the source)
    merge_j,             \* j of the inner loop (0-based)
    merge_pc,            \* "idle", "inner", "done"
    merge_again,         \* TRUE in a call on the list a previous call returned
    merge_input,         \* the list as it was passed to the call
    \* ---- Grid.__init__ / Grid._walk (grids.py) ----
    mesh,                \* the host mesh bm: faces, their edges, seam flags
    grid_sel,            \* argument faces: the set of face indices passed
    grid_start,          \* startface
    grid_first_edge,     \* startface.edges[0]
    grid_faces,          \* self._faces: face index -> GridFace or None
    grid_stack,          \* the frames of the recursive _walk calls, top last
    grid_size,           \* self.size, <<0, 0>> while unset
    grid_error,          \* "none" or the class of the exception raised
    grid_unreached,      \* unreached_faces of the exception message
    grid_pc,             \* "idle", "walk", "built", "raised"
    \* ---- find_free_space_for_island (packing.py) ----
    fs_target,           \* target_island.pixel_pos, a RectInt
    fs_others,           \* pixel_pos of the islands of all_islands but the target
    fs_texture_size,     \* argument
    fs_prefer,           \* fourth argument of the call: "absent", "true", "false"
    fs_candidates,       \* candidate_positions
    fs_result,           \* the position returned, <<>> while there is none
    fs_error,            \* "none" or the class of the exception raised
    fs_pc,               \* "idle", "scan", "fallback", "done", "raised"
    \* ---- Grid.fold (grids.py) ----
    fold_size,           \* self.size
    fold_coords,         \* self._faces in iteration order: the coord of each GridFace
    fold_uv,             \* uv of the four loops of each face: SW, SE, NE, NW
    fold_args,           \* x_sections, y_sections, alternate
    fold_k,              \* number of faces the loop has gone through
    fold_written,        \* the faces overlay_on was called on
    fold_pc,             \* "idle", "loop", "done"
    \* ---- PixelArray.copy_region_transformed (texture.py) ----
    tex_size,            \* <<width, height>> of the source and destination arrays
    tex_src,             \* source.pixels, one entry per pixel (its four floats)
    tex_rect,            \* src_rect
    tex_transform,       \* transform: a, b, c, d and the translation in half pixels
    tex_kind,            \* "move" or "rot", how the transform was made
    tex_dst,             \* self.pixels of the destination after the copy
    tex_bounds,          \* dst_min_x, dst_min_y, dst_max_x, dst_max_y of the copy
    tex_back,            \* pixels of a third array after copying the result back
    tex_pc,              \* "idle", "copied", "back"
    \* ---- the operators (operators.py) ----
    op_texture,          \* the texture of the material: present, size, is_dirty
    op_pixels,           \* texture.pixels, one entry per pixel
    op_islands,          \* the selected islands before the call: pixel rect, flag
    op_uv,               \* per island the uv of four loops, in half pixels
    op_name,             \* the operator that was called
    op_modify,           \* its modify_texture property (FALSE if it has none)
    op_result,           \* "none", "FINISHED", "CANCELLED" or "exception"
    op_report,           \* the error reported, or the class of the exception
    op_writes,           \* number of assignments to texture.pixels
    op_pc,               \* "idle", "ready", "done"
    \* ---- get_islands_for_faces / get_connected_components (islands.py) ----
    cc_loops,            \* the mesh: face index -> the keys (uv, vert.index) of its loops
    cc_faces,            \* argument faces: the set of face indices passed
    cc_remaining,        \* remaining
    cc_components,       \* connected_components: sequence of sequences of nodes
    cc_current,          \* current_component
    cc_stack,            \* nodes_to_add, top last
    cc_pc,               \* "idle", "outer", "inner", "done"
    \* ---- Grid.realign_to_uv_map (grids.py) ----
    rl_size,             \* self.size as <<x, y>>
    rl_faces,            \* self._faces: cell of the face at construction -> GridFace
    rl_uv,               \* how the uv map lies: the matrix from grid frame to uv
    rl_matrix,           \* matrix
    rl_todo,             \* the faces the last loop has still to transform
    rl_pc,               \* "idle", "loop", "done"
    \* ---- copy_texture_region (texture.py) ----
    ctr_size,            \* texture.size
    ctr_before,          \* texture.pixels when the call is made
    ctr_args,            \* src_pos, size, dst_pos
    ctr_src,             \* src_pixels.pixels
    ctr_dst,             \* dst_pixels.pixels
    ctr_pixels,          \* texture.pixels
    ctr_pc,              \* "idle", "arrays", "done"
    \* ---- UVIsland.get_boundary_loops (islands.py) ----
    bl_faces,            \* self.uv_faces: the faces of the island, each the set of its verts
    bl_remaining,        \* remaining_edges
    bl_loops,            \* loops
    bl_current_loop,     \* current_loop
    bl_error,            \* "none" or the class of the exception raised
    bl_pc,               \* "idle", "outer", "walk", "returned", "raised"
    cp_loop,             \* find_corner_points: the uv of each point of the loop
    cp_corners,          \* the four corners: bottom left, bottom right, top right, top left
    cp_distances,        \* distances, sorted by distance
    cp_ordered_indices,  \* the loop index matched to each corner, in corner order
    cp_result,           \* the returned (corner_points, ordered_indices)
    cp_error,            \* the exception the call raised
    cp_pc

packVars == <<rect_sizes, initial_space_size, rects, output_positions, levels,
              space_size, pack_k, pack_pc, positions>>

mergeVars == <<islands, merge_i, merge_j, merge_pc, merge_again, merge_input>>

gridVars == <<mesh, grid_sel, grid_start, grid_first_edge, grid_faces, grid_stack,
              grid_size, grid_error, grid_unreached, grid_pc>>

fsVars == <<fs_target, fs_others, fs_texture_size, fs_prefer, fs_candidates,
            fs_result, fs_error, fs_pc>>

foldVars == <<fold_size, fold_coords, fold_uv, fold_args, fold_k, fold_written,
              fold_pc>>

texVars == <<tex_size, tex_src, tex_rect, tex_transform, tex_kind, tex_dst,
             tex_bounds, tex_back, tex_pc>>

opVars == <<op_texture, op_pixels, op_islands, op_uv, op_name, op_modify,
            op_result, op_report, op_writes, op_pc>>

ccVars == <<cc_loops, cc_faces, cc_remaining, cc_components, cc_current,
            cc_stack, cc_pc>>

rlVars == <<rl_size, rl_faces, rl_uv, rl_matrix, rl_todo, rl_pc>>

ctrVars == <<ctr_size, ctr_before, ctr_args, ctr_src, ctr_dst, ctr_pixels, ctr_pc>>

blVars == <<bl_faces, bl_remaining, bl_loops, bl_current_loop, bl_error, bl_pc>>

cpVars == <<cp_loop, cp_corners, cp_distances, cp_ordered_indices, cp_result,
            cp_error, cp_pc>>

vars == <<packVars, mergeVars, gridVars, fsVars,
          foldVars, texVars, opVars, ccVars, rlVars, ctrVars, blVars, cpVars>>

\* What a step of one algorithm leaves alone: the state of the others.
notPack == <<mergeVars, gridVars, fsVars, foldVars, texVars,
             opVars, ccVars, rlVars, ctrVars, blVars, cpVars>>

notMerge == <<packVars, gridVars, fsVars, foldVars, texVars,
              opVars, ccVars, rlVars, ctrVars, blVars, cpVars>>

notGrid == <<packVars, mergeVars, fsVars, foldVars, texVars,
             opVars, ccVars, rlVars, ctrVars, blVars, cpVars>>

notFs == <<packVars, mergeVars, gridVars, foldVars, texVars,
           opVars, ccVars, rlVars, ctrVars, blVars, cpVars>>

notFold == <<packVars, mergeVars, gridVars, fsVars, texVars,
             opVars, ccVars, rlVars, ctrVars, blVars, cpVars>>

notTex == <<packVars, mergeVars, gridVars, fsVars, foldVars,
            opVars, ccVars, rlVars, ctrVars, blVars, cpVars>>

notCc == <<packVars, mergeVars, gridVars, fsVars, foldVars,
           texVars, opVars, rlVars, ctrVars, blVars, cpVars>>

notRl == <<packVars, mergeVars, gridVars, fsVars, foldVars,
           texVars, opVars, ccVars, ctrVars, blVars, cpVars>>

notCtr == <<packVars, mergeVars, gridVars, fsVars, foldVars,
            texVars, opVars, ccVars, rlVars, blVars, cpVars>>

notBl == <<packVars, mergeVars, gridVars, fsVars, foldVars,
           texVars, opVars, ccVars, rlVars, ctrVars, cpVars>>

notCp == <<packVars, mergeVars, gridVars, fsVars, foldVars,
           texVars, opVars, ccVars, rlVars, ctrVars, blVars>>

notOp == <<packVars, mergeVars, gridVars, fsVars, foldVars,
           texVars, ccVars, rlVars, ctrVars, blVars, cpVars>>

\* ------------------------------------------------------------------------
\* Sequence helpers
\* ------------------------------------------------------------------------
Range(s) == {s[n] : n \in 1..Len(s)}

Last(s) == s[Len(s)]

Front(s) == SubSeq(s, 1, Len(s) - 1)

MinOf(S) == CHOOSE m \in S : \A n \in S : m <= n

\* ------------------------------------------------------------------------
\* pack_rects
\* ------------------------------------------------------------------------
\* A rectangle size is <<width, height>>: rect[0] of the source is rect[1]
\* here, rect[1] of the source is rect[2].
RectSizes == (1..MaxDim) \X (1..MaxDim)

\* enumerate(rect_sizes): <<idx, size>> with the 0-based index of the source.
Enumerate(sizes) == [n \in 1..Len(sizes) |-> <<n - 1, sizes[n]>>]

\* One insertion of a stable descending sort on p[1][1] (the height): p goes
\* behind every element that is at least as high.
InsertByHeight(sorted, p) ==
    LET k == Cardinality({n \in 1..Len(sorted) : sorted[n][2][2] >= p[2][2]})
    IN  SubSeq(sorted, 1, k) \o <<p>> \o SubSeq(sorted, k + 1, Len(sorted))

RECURSIVE SortedByHeight(_)
\* sorted(rects, key=lambda p: p[1][1], reverse=True): stable, highest first.
SortedByHeight(s) ==
    IF s = <<>> THEN <<>>
    ELSE InsertByHeight(SortedByHeight(Front(s)), Last(s))

\* One insertion of an ascending sort on the index (indices are distinct).
InsertByIdx(sorted, p) ==
    LET k == Cardinality({n \in 1..Len(sorted) : sorted[n][1] < p[1]})
    IN  SubSeq(sorted, 1, k) \o <<p>> \o SubSeq(sorted, k + 1, Len(sorted))

RECURSIVE SortedByIdx(_)
\* sorted(output_positions): tuples compare on idx first.
SortedByIdx(s) ==
    IF s = <<>> THEN <<>>
    ELSE InsertByIdx(SortedByIdx(Front(s)), Last(s))

\* A plausible slip: the placement order is returned as it is.
RestoreInputOrderKeepsOrder(out) == [n \in 1..Len(out) |-> out[n][2]]

\* [pos for (idx, pos) in sorted(output_positions)]
RestoreInputOrder(out) ==
    LET s == SortedByIdx(out) IN [n \in 1..Len(s) |-> s[n][2]]

\* BoxPackingStrip.fits_rect
FitsRect(level, rect, space) ==
    rect[2] <= level.height /\ rect[1] < space - level.filled

\* A plausible slip: the new strip starts at the last strip's y.
NextStripYNoHeight(lv) == IF lv = <<>> THEN 0 ELSE Last(lv).y

\* y = 0 if not levels else (levels[-1].y + levels[-1].height)
NextStripY(lv) == IF lv = <<>> THEN 0 ELSE Last(lv).y + Last(lv).height

\* A plausible slip: the filled width of a new strip starts at 0.
NewStripFilledZero(y, height) == [y |-> y, height |-> height, filled |-> 0]

\* BoxPackingStrip(y, height, -1)
NewStrip(y, height) == [y |-> y, height |-> height, filled |-> -1]

\* A plausible slip: the space size is not increased.
GrowSpaceStuck(space) == space

\* space_size *= 2
GrowSpace(space) == space * 2

\* level_where_fits.filled + 1
PlacedX(level) == level.filled + 1

\* Before the call: no argument has been passed yet.
PackIdle ==
    /\ rect_sizes = <<>>
    /\ initial_space_size = 0
    /\ rects = <<>>
    /\ output_positions = <<>>
    /\ levels = <<>>
    /\ space_size = 0
    /\ pack_k = 0
    /\ pack_pc = "idle"
    /\ positions = <<>>

\* No call of merge_overlapping_islands has been made.
MergeIdle ==
    /\ islands = <<>>
    /\ merge_i = 0
    /\ merge_j = 0
    /\ merge_pc = "idle"
    /\ merge_again = FALSE
    /\ merge_input = <<>>

\* No Grid is being built.
GridIdle ==
    /\ mesh = [kind |-> "patch", cols |-> 0, rows |-> 0, sides |-> <<>>, seam |-> {}]
    /\ grid_sel = {}
    /\ grid_start = 0
    /\ grid_first_edge = <<>>
    /\ grid_faces = <<>>
    /\ grid_stack = <<>>
    /\ grid_size = <<0, 0>>
    /\ grid_error = "none"
    /\ grid_unreached = {}
    /\ grid_pc = "idle"

\* find_free_space_for_island has not been called.
FsIdle ==
    /\ fs_target = [min |-> <<0, 0>>, max |-> <<0, 0>>]
    /\ fs_others = <<>>
    /\ fs_texture_size = 0
    /\ fs_prefer = "absent"
    /\ fs_candidates = <<>>
    /\ fs_result = <<>>
    /\ fs_error = "none"
    /\ fs_pc = "idle"

\* Grid.fold has not been called.
FoldIdle ==
    /\ fold_size = <<0, 0>>
    /\ fold_coords = <<>>
    /\ fold_uv = <<>>
    /\ fold_args = [x_sections |-> 1, y_sections |-> 1, alternate |-> FALSE]
    /\ fold_k = 0
    /\ fold_written = {}
    /\ fold_pc = "idle"

\* No pixel array exists.
TexIdle ==
    /\ tex_size = <<0, 0>>
    /\ tex_src = <<>>
    /\ tex_rect = [min |-> <<0, 0>>, max |-> <<0, 0>>]
    /\ tex_transform = [a |-> 1, b |-> 0, c |-> 0, d |-> 1, e2 |-> 0, f2 |-> 0]
    /\ tex_kind = "move"
    /\ tex_dst = <<>>
    /\ tex_bounds = [min |-> <<0, 0>>, max |-> <<0, 0>>]
    /\ tex_back = <<>>
    /\ tex_pc = "idle"

\* No operator has been called and no scene is set up.
OpIdle ==
    /\ op_texture = [present |-> FALSE, size |-> 0, dirty |-> FALSE]
    /\ op_pixels = <<>>
    /\ op_islands = <<>>
    /\ op_uv = <<>>
    /\ op_name = "none"
    /\ op_modify = FALSE
    /\ op_result = "none"
    /\ op_report = "none"
    /\ op_writes = 0
    /\ op_pc = "idle"

\* get_islands_for_faces has not been called.
CcIdle ==
    /\ cc_loops = <<>>
    /\ cc_faces = {}
    /\ cc_remaining = {}
    /\ cc_components = <<>>
    /\ cc_current = <<>>
    /\ cc_stack = <<>>
    /\ cc_pc = "idle"

\* No grid has been realigned.
RlIdle ==
    /\ rl_size = <<0, 0>>
    /\ rl_faces = <<>>
    /\ rl_uv = <<>>
    /\ rl_matrix = <<>>
    /\ rl_todo = <<>>
    /\ rl_pc = "idle"

\* copy_texture_region has not been called.
CtrIdle ==
    /\ ctr_size = <<0, 0>>
    /\ ctr_before = <<>>
    /\ ctr_args = <<>>
    /\ ctr_src = <<>>
    /\ ctr_dst = <<>>
    /\ ctr_pixels = <<>>
    /\ ctr_pc = "idle"

\* get_boundary_loops has not been called.
BlIdle ==
    /\ bl_faces = {}
    /\ bl_remaining = {}
    /\ bl_loops = <<>>
    /\ bl_current_loop = <<>>
    /\ bl_error = "none"
    /\ bl_pc = "idle"

\* find_corner_points has not been called.
CpIdle ==
    /\ cp_loop = <<>>
    /\ cp_corners = <<>>
    /\ cp_distances = <<>>
    /\ cp_ordered_indices = <<>>
    /\ cp_result = <<>>
    /\ cp_error = "none"
    /\ cp_pc = "idle"

\* Nothing has been called.
AllIdle ==
    PackIdle /\ MergeIdle /\ GridIdle /\ FsIdle /\ FoldIdle /\ TexIdle /\ OpIdle
    /\ CcIdle
    /\ RlIdle
    /\ CtrIdle
    /\ BlIdle
    /\ CpIdle

\* The call with its arguments, and lines 50-57: enumerate, sort by height,
\* initialise.
PackCall(max_rects) ==
    /\ pack_pc = "idle"
    /\ \E n \in 0..max_rects : rect_sizes' \in [1..n -> RectSizes]
    /\ initial_space_size' \in 1..MaxInitSpace
    /\ rects' = SortedByHeight(Enumerate(rect_sizes'))
    /\ output_positions' = <<>>
    /\ levels' = <<>>
    /\ space_size' = initial_space_size'
    /\ pack_pc' = "while"
    /\ UNCHANGED <<pack_k, positions>>
    /\ UNCHANGED notPack

\* Lines 59-62: the test of the while loop and the start of an attempt.
PackWhile ==
    /\ pack_pc = "while"
    /\ IF Len(output_positions) < Len(rects)
       THEN /\ output_positions' = <<>>
            /\ levels' = <<>>
            /\ pack_k' = 1
            /\ pack_pc' = "for"
       ELSE /\ pack_pc' = "return"
            /\ UNCHANGED <<output_positions, levels, pack_k>>
    /\ UNCHANGED <<rect_sizes, initial_space_size, rects, space_size, positions>>
    /\ UNCHANGED notPack

\* Lines 63-85: one iteration of the for loop (or its end).
PackFor ==
    /\ pack_pc = "for"
    /\ IF pack_k > Len(rects)
       THEN /\ pack_pc' = "while"
            /\ UNCHANGED <<output_positions, levels, space_size, pack_k>>
       ELSE LET idx == rects[pack_k][1]
                rect == rects[pack_k][2]
                fitting == {n \in 1..Len(levels) : FitsRect(levels[n], rect, space_size)}
                y == NextStripY(levels)
                height == rect[2]
            IN  IF fitting = {} /\ y + height > space_size
                THEN \* out of space: double and start over
                     /\ space_size' = GrowSpace(space_size)
                     /\ pack_pc' = "while"
                     /\ UNCHANGED <<output_positions, levels, pack_k>>
                ELSE LET lv == IF fitting = {}
                               THEN Append(levels, NewStrip(y, height))
                               ELSE levels
                         n == IF fitting = {} THEN Len(lv) ELSE MinOf(fitting)
                     IN  /\ output_positions' =
                                Append(output_positions, <<idx, <<PlacedX(lv[n]), lv[n].y>>>>)
                         /\ levels' = [lv EXCEPT ![n].filled = @ + rect[1]]
                         /\ pack_k' = pack_k + 1
                         /\ UNCHANGED <<space_size, pack_pc>>
    /\ UNCHANGED <<rect_sizes, initial_space_size, rects, positions>>
    /\ UNCHANGED notPack

\* Lines 87-88: restore the input order and return.
PackReturn ==
    /\ pack_pc = "return"
    /\ positions' = RestoreInputOrder(output_positions)
    /\ pack_pc' = "done"
    /\ UNCHANGED <<rect_sizes, initial_space_size, rects, output_positions,
                   levels, space_size, pack_k>>
    /\ UNCHANGED notPack

PackInit == AllIdle

PackStart == PackCall(MaxRects)

PackNext == PackStart \/ PackWhile \/ PackFor \/ PackReturn

PackSpec == PackInit /\ [][PackNext]_vars

PackLiveStart == PackCall(MaxLiveRects)

PackLiveNext == PackLiveStart \/ PackWhile \/ PackFor \/ PackReturn

\* pack_rects is one synchronous call: it is made and then runs until it
\* returns.
PackLiveSpec == PackInit /\ [][PackLiveNext]_vars /\ WF_vars(PackLiveNext)

\* ------------------------------------------------------------------------
\* merge_overlapping_islands
\* ------------------------------------------------------------------------
\* A UVIsland is a record: min and max are <<u, v>> bounds, uv_faces is the
\* list of its faces, num_uv the number of its loops. uv_sum stands for
\* average_uv * num_uv (the sum of the island's loop UVs), so average_uv is
\* uv_sum / num_uv without rounding.
Coords == 0..MaxCoord

\* The v coordinates of bounds: two values, enough for two islands to be
\* apart, to touch or to contain each other on the v axis.
VCoords == {0, 1}

\* The bounds an island can have: min <= max on both axes.
IslandBounds ==
    {b \in [min : Coords \X VCoords, max : Coords \X VCoords] :
        b.min[1] <= b.max[1] /\ b.min[2] <= b.max[2]}

\* UVIsland.__init__ / update_min_max for island number k made of the one
\* quad face k whose four loops sit on the corners of its bounds.
NewIsland(k, b) ==
    [min |-> b.min, max |-> b.max, uv_faces |-> <<k>>, num_uv |-> 4,
     uv_sum |-> <<2 * (b.min[1] + b.max[1]), 2 * (b.min[2] + b.max[2])>>]

Max2(a, b) == IF a > b THEN a ELSE b

Min2(a, b) == IF a < b THEN a ELSE b

\* common.elem_max
ElemMax(a, b) == <<Max2(a[1], b[1]), Max2(a[2], b[2])>>

\* common.elem_min
ElemMin(a, b) == <<Min2(a[1], b[1]), Min2(a[2], b[2])>>

\* A plausible slip: the bounds are merged, the faces of the other island and
\* their loops are not taken over.
IslandMergeBoundsOnly(self, other) ==
    [min |-> ElemMin(self.min, other.min),
     max |-> ElemMax(self.max, other.max),
     uv_faces |-> self.uv_faces,
     num_uv |-> self.num_uv,
     uv_sum |-> self.uv_sum]

\* UVIsland.merge
IslandMerge(self, other) ==
    [min |-> ElemMin(self.min, other.min),
     max |-> ElemMax(self.max, other.max),
     uv_faces |-> self.uv_faces \o other.uv_faces,
     num_uv |-> self.num_uv + other.num_uv,
     uv_sum |-> <<self.uv_sum[1] + other.uv_sum[1], self.uv_sum[2] + other.uv_sum[2]>>]

\* A plausible slip: the comparisons of a half-open rectangle test (as in
\* RectInt.overlaps), under which bounds that only touch do not overlap.
BoundsOverlapStrict(island_i, island_j) ==
    ~ \/ island_j.min[1] >= island_i.max[1]
      \/ island_i.min[1] >= island_j.max[1]
      \/ island_j.min[2] >= island_i.max[2]
      \/ island_i.min[2] >= island_j.max[2]

\* The test of lines 302-307.
BoundsOverlap(island_i, island_j) ==
    ~ \/ island_j.min[1] > island_i.max[1]
      \/ island_i.min[1] > island_j.max[1]
      \/ island_j.min[2] > island_i.max[2]
      \/ island_i.min[2] > island_j.max[2]

\* del islands[j], for a 0-based j.
DeleteAt(s, j) == SubSeq(s, 1, j) \o SubSeq(s, j + 2, Len(s))

\* Lines 296-298 and 319: the outer loop reaches its test with i and the
\* list lst: it enters the inner loop with j = i + 1, or ends and the call
\* returns.
OuterLoop(i, lst) ==
    /\ merge_i' = i
    /\ islands' = lst
    /\ merge_input' = IF merge_pc = "inner" THEN merge_input ELSE lst
    /\ IF i < Len(lst)
       THEN merge_j' = i + 1 /\ merge_pc' = "inner"
       ELSE merge_j' = merge_j /\ merge_pc' = "done"

\* The first call, with its argument: a list of islands (line 295: i = 0).
MergeCall ==
    /\ merge_pc = "idle"
    /\ \E n \in 0..MaxIslands :
          \E bs \in [1..n -> IslandBounds] :
              OuterLoop(0, [k \in 1..n |-> NewIsland(k, bs[k])])
    /\ merge_again' = FALSE
    /\ UNCHANGED notMerge

\* A further call, on the list the previous call returned.
MergeAgain ==
    /\ merge_pc = "done"
    /\ OuterLoop(0, islands)
    /\ merge_again' = TRUE
    /\ UNCHANGED notMerge

\* Lines 299-317: one iteration of the inner loop, or its end (i += 1).
MergeInner ==
    /\ merge_pc = "inner"
    /\ IF merge_j < Len(islands)
       THEN LET island_i == islands[merge_i + 1]
                island_j == islands[merge_j + 1]
            IN  IF BoundsOverlap(island_i, island_j)
                THEN /\ islands' =
                            DeleteAt([islands EXCEPT ![merge_i + 1] =
                                          IslandMerge(island_i, island_j)], merge_j)
                     /\ merge_j' = merge_i + 1
                     /\ UNCHANGED <<merge_i, merge_pc, merge_input>>
                ELSE /\ merge_j' = merge_j + 1
                     /\ UNCHANGED <<islands, merge_i, merge_pc, merge_input>>
       ELSE OuterLoop(merge_i + 1, islands)
    /\ UNCHANGED merge_again
    /\ UNCHANGED notMerge

MergeInit == AllIdle

MergeNext == MergeCall \/ MergeAgain \/ MergeInner

MergeSpec == MergeInit /\ [][MergeNext]_vars

\* ------------------------------------------------------------------------
\* The host mesh
\* ------------------------------------------------------------------------
\* A mesh is a record: sides[f] is the cycle of the edges of face f in the
\* order of its loops (a face index is 0-based, as face.index), seam is the
\* set of edges marked as seams, kind tells whether the mesh is a patch, a
\* ring or a fan, and cols, rows are its dimensions. face.edges is that
\* cycle read from some first edge, which only the host decides.
\*
\* The patch has faces (c, r), 0 <= c < cols, 0 <= r < rows, with face index
\* r * cols + c. Its edges are <<"v", c, r>>, the edge on the column line c
\* beside row r, and <<"h", c, r>>, the edge on the row line r under/over
\* column c.
PatchFace(c, r, cols) == r * cols + c

PatchFaces(cols, rows) == 0..(cols * rows - 1)

\* The four sides of face (c, r): east, north, west, south.
PatchSides(c, r) ==
    <<<<"v", c + 1, r>>, <<"h", c, r + 1>>, <<"v", c, r>>, <<"h", c, r>>>>

\* The edges between two faces of the patch.
PatchInnerEdges(cols, rows) ==
    {<<"v", c, r>> : c \in 1..(cols - 1), r \in 0..(rows - 1)}
        \cup {<<"h", c, r>> : c \in 0..(cols - 1), r \in 1..(rows - 1)}

\* A closed ring of k quads (the side of a prism): face i lies between the
\* rungs i and i + 1, and the rung k is the rung 0 again. Its sides: east,
\* north, west, south.
RingSides(i, k) ==
    <<<<"v", (i + 1) % k, 0>>, <<"h", i, 1>>, <<"v", i, 0>>, <<"h", i, 0>>>>

\* A fan of k quads sharing one vertex: face i lies between the spokes i and
\* i + 1 that leave the vertex, and the spoke k is the spoke 0 again. Going
\* round face i counter-clockwise from the vertex: out along spoke i, two
\* outer edges, back along spoke i + 1.
FanSides(i, k) ==
    <<<<"s", i, 0>>, <<"o", i, 0>>, <<"o", i, 1>>, <<"s", (i + 1) % k, 0>>>>

\* The meshes built: a patch of cols x rows quads, a ring of cols quads, a
\* fan of cols quads.
MeshShapes ==
    {sh \in [kind : {"patch"}, cols : 1..MaxPatchFaces, rows : 1..MaxPatchFaces] :
        sh.cols * sh.rows <= MaxPatchFaces}
        \cup [kind : {"ring", "fan"}, cols : 3..MaxPatchFaces, rows : {1}]

\* The cycle of the sides of face f of a mesh of shape sh, wound
\* counter-clockwise.
ShapeSides(sh, f) ==
    CASE sh.kind = "patch" -> PatchSides(f % sh.cols, f \div sh.cols)
      [] sh.kind = "ring" -> RingSides(f, sh.cols)
      [] sh.kind = "fan" -> FanSides(f, sh.cols)

\* The edges between two faces of a mesh of shape sh.
ShapeInnerEdges(sh) ==
    CASE sh.kind = "patch" -> PatchInnerEdges(sh.cols, sh.rows)
      [] sh.kind = "ring" -> {<<"v", i, 0>> : i \in 0..(sh.cols - 1)}
      [] sh.kind = "fan" -> {<<"s", i, 0>> : i \in 0..(sh.cols - 1)}

\* What can be wrong with the faces passed, for a mesh of shape sh: an inner
\* edge is a seam, a face is left out, a face is a triangle.
ShapeDefects(sh) ==
    ({"seam"} \X ShapeInnerEdges(sh))
        \cup ({"missing", "tri"} \X PatchFaces(sh.cols, sh.rows))

RECURSIVE SubsetsUpTo(_, _)
\* The subsets of S of at most n elements.
SubsetsUpTo(S, n) ==
    IF n = 0 THEN {{}}
    ELSE LET smaller == SubsetsUpTo(S, n - 1)
         IN  smaller \cup {T \cup {x} : T \in smaller, x \in S}

\* The faces of a mesh of shape sh, every face wound the same way; the
\* faces of tris are triangles (they lack the last side of their cycle).
MeshSides(sh, cw, tris) ==
    [f \in PatchFaces(sh.cols, sh.rows) |->
        LET q == ShapeSides(sh, f)
            w == IF cw THEN <<q[1], q[4], q[3], q[2]>> ELSE q
        IN  IF f \in tris THEN SubSeq(w, 1, 3) ELSE w]

\* face.edges of a face whose cycle of sides is q, when the host lists the
\* cycle from its edge number rot.
FaceEdges(q, rot) == [k \in 1..Len(q) |-> q[((rot + k - 1) % Len(q)) + 1]]

\* list(face.edges).index(edge), 0-based.
EdgeIndex(edges, edge) == MinOf({k \in 1..Len(edges) : edges[k] = edge}) - 1

\* edge.link_faces
LinkFaces(edge) == {f \in DOMAIN mesh.sides : edge \in Range(mesh.sides[f])}

RECURSIVE Ascending(_)
\* The elements of a set of face indices, in ascending order.
Ascending(S) ==
    IF S = {} THEN <<>>
    ELSE LET m == MinOf(S) IN <<m>> \o Ascending(S \ {m})

\* Grid.other_faces_on_edge
OtherFacesOnEdge(edge, face) == Ascending(LinkFaces(edge) \ {face})

\* ------------------------------------------------------------------------
\* Direction, GridFace, Grid
\* ------------------------------------------------------------------------
EAST == 0
NORTH == 1
WEST == 2
SOUTH == 3

\* A plausible slip: the direction itself is passed on.
OppositeSame(d) == d

\* Direction.opposite
Opposite(d) ==
    CASE d = NORTH -> SOUTH
      [] d = SOUTH -> NORTH
      [] d = EAST -> WEST
      [] d = WEST -> EAST

\* Direction.vector
DirVector(d) == <<<<1, 0>>, <<0, 1>>, <<-1, 0>>, <<0, -1>>>>[d + 1]

\* Vector2Int.__add__
VAdd(a, b) == <<a[1] + b[1], a[2] + b[2]>>

\* Vector2Int.__sub__
VSub(a, b) == <<a[1] - b[1], a[2] - b[2]>>

\* The value None of self._faces.
NoneFace == [walked |-> FALSE, coord |-> <<0, 0>>, edges |-> <<>>]

\* GridFace(face, coord): edges is filled in direction order, EAST first.
GridFace(coord) == [walked |-> TRUE, coord |-> coord, edges |-> <<>>]

\* north_edge_idx = (idx - edge_dir.value) % 4
NorthEdgeIdx(idx, edge_dir) == (idx - edge_dir) % 4

\* A plausible slip: seams are walked across.
CrossableIgnoringSeam(edge) == TRUE

\* if not edge.seam
Crossable(edge) == edge \notin mesh.seam

\* The frame of a _walk call that passed the test of line 246. face.edges was
\* read from edge number rot; the frame keeps first = rot + north_edge_idx,
\* so that face.edges[(north_edge_idx + dir_idx) % 4] is
\* mesh.sides[face][(first + dir_idx) % 4]. dir_idx counts the directions
\* whose edge has been appended; pend lists the other faces on the last of
\* those edges that are still to be walked to.
WalkFrame(face, q, coord, incoming_edge, edge_dir, rot) ==
    LET idx == EdgeIndex(FaceEdges(q, rot), incoming_edge)
    IN  [face |-> face, coord |-> coord,
         first |-> (rot + NorthEdgeIdx(idx, edge_dir)) % 4,
         dir_idx |-> 0, pend |-> <<>>]

\* Line 246: the face is one of the faces passed and has not been walked.
WalkEnters(face) == face \in DOMAIN grid_faces /\ ~grid_faces[face].walked

\* The call Grid(bm, faces), lines 186-200 and the first _walk call up to
\* line 252. The arguments: a mesh (patch, ring or fan) with some seams and
\* some triangles, all its faces but some, any of them as start face, any of
\* its edges as its first edge.
GridCall ==
    /\ grid_pc = "idle"
    /\ \E sh \in MeshShapes :
       \E cw \in BOOLEAN :
       \E rot \in 0..3 :
       \E defects \in SubsetsUpTo(ShapeDefects(sh), MaxDefects) :
          LET seams == {d[2] : d \in {x \in defects : x[1] = "seam"}}
              missing == {d[2] : d \in {x \in defects : x[1] = "missing"}}
              tris == {d[2] : d \in {x \in defects : x[1] = "tri"}}
          IN \E start \in PatchFaces(sh.cols, sh.rows) \ missing :
                /\ mesh' = [kind |-> sh.kind, cols |-> sh.cols, rows |-> sh.rows,
                            sides |-> MeshSides(sh, cw, tris), seam |-> seams]
                /\ grid_sel' = PatchFaces(sh.cols, sh.rows) \ missing
                /\ grid_start' = start
                /\ IF \E f \in grid_sel' : Len(mesh'.sides[f]) # 4
                   THEN \* raise Exception("Selection contains non-quads")
                        /\ rot = 0
                        /\ grid_first_edge' = <<>>
                        /\ grid_faces' = [f \in grid_sel' |-> NoneFace]
                        /\ grid_stack' = <<>>
                        /\ grid_error' = "Exception"
                        /\ grid_pc' = "raised"
                   ELSE /\ grid_first_edge' = FaceEdges(mesh'.sides[start], rot)[1]
                        /\ grid_faces' = [f \in grid_sel' |->
                                             IF f = start THEN GridFace(<<0, 0>>)
                                             ELSE NoneFace]
                        /\ grid_stack' = <<WalkFrame(start, mesh'.sides[start],
                                                     <<0, 0>>, grid_first_edge',
                                                     NORTH, rot)>>
                        /\ grid_error' = "none"
                        /\ grid_pc' = "walk"
    /\ UNCHANGED <<grid_size, grid_unreached>>
    /\ UNCHANGED notGrid

\* One step of the walk, in the innermost _walk call (lines 253-268): walk to
\* the next other face on the current edge; or take the edge of the next
\* direction; or, after the fourth direction, return.
GridWalk ==
    /\ grid_pc = "walk"
    /\ grid_stack # <<>>
    /\ LET top == Len(grid_stack)
           fr == grid_stack[top]
       IN  IF fr.pend # <<>>
           THEN LET other_face == Head(fr.pend)
                    dir == fr.dir_idx - 1
                    edge == Last(grid_faces[fr.face].edges)
                    coord == VAdd(fr.coord, DirVector(dir))
                    rest == [grid_stack EXCEPT ![top].pend = Tail(fr.pend)]
                IN  IF WalkEnters(other_face)
                    THEN /\ grid_faces' =
                                [grid_faces EXCEPT ![other_face] = GridFace(coord)]
                         /\ \E rot \in 0..3 :
                               grid_stack' =
                                   Append(rest, WalkFrame(other_face,
                                                          mesh.sides[other_face],
                                                          coord, edge,
                                                          Opposite(dir), rot))
                    ELSE /\ grid_stack' = rest
                         /\ UNCHANGED grid_faces
           ELSE IF fr.dir_idx < 4
           THEN LET edge == mesh.sides[fr.face][((fr.first + fr.dir_idx) % 4) + 1]
                IN  /\ grid_faces' =
                           [grid_faces EXCEPT ![fr.face].edges = Append(@, edge)]
                    /\ grid_stack' =
                           [grid_stack EXCEPT
                               ![top].dir_idx = @ + 1,
                               ![top].pend = IF Crossable(edge)
                                             THEN OtherFacesOnEdge(edge, fr.face)
                                             ELSE <<>>]
           ELSE /\ grid_stack' = Front(grid_stack)
                /\ UNCHANGED grid_faces
    /\ UNCHANGED <<mesh, grid_sel, grid_start, grid_first_edge, grid_size,
                   grid_error, grid_unreached, grid_pc>>
    /\ UNCHANGED notGrid

\* Lines 202-233, when the first _walk call has returned: raise if a face was
\* not walked, else normalise the coordinates and set the size.
GridFinish ==
    /\ grid_pc = "walk"
    /\ grid_stack = <<>>
    /\ LET unreached_faces == {f \in DOMAIN grid_faces : ~grid_faces[f].walked}
       IN  IF unreached_faces # {}
           THEN /\ grid_unreached' = unreached_faces
                /\ grid_error' = "GridBuildException"
                /\ grid_pc' = "raised"
                /\ UNCHANGED <<grid_faces, grid_size>>
           ELSE LET xs == {grid_faces[f].coord[1] : f \in DOMAIN grid_faces}
                    ys == {grid_faces[f].coord[2] : f \in DOMAIN grid_faces}
                    min_coord == <<MinOf(xs), MinOf(ys)>>
                    max_coord == <<-MinOf({-x : x \in xs}), -MinOf({-y : y \in ys})>>
                IN  /\ grid_faces' =
                           [f \in DOMAIN grid_faces |->
                               [grid_faces[f] EXCEPT !.coord = VSub(@, min_coord)]]
                    /\ grid_size' = VAdd(VSub(max_coord, min_coord), <<1, 1>>)
                    /\ grid_pc' = "built"
                    /\ UNCHANGED <<grid_error, grid_unreached>>
    /\ UNCHANGED <<mesh, grid_sel, grid_start, grid_first_edge, grid_stack>>
    /\ UNCHANGED notGrid

GridInit == AllIdle

GridNext == GridCall \/ GridWalk \/ GridFinish

GridSpec == GridInit /\ [][GridNext]_vars

\* ------------------------------------------------------------------------
\* find_free_space_for_island
\* ------------------------------------------------------------------------
\* An island is known here by its pixel_pos, a RectInt: a record of min and
\* max, each <<x, y>>, of positive width and height.
Pixels == 0..MaxPixel

PixelRects ==
    {r \in [min : Pixels \X Pixels, max : Pixels \X Pixels] :
        r.min[1] < r.max[1] /\ r.min[2] < r.max[2]}

\* RectInt.size
RectSize(r) == VSub(r.max, r.min)

\* RectInt.overlaps
RectOverlaps(self, other_min, other_size) ==
    LET other_max == VAdd(other_min, other_size)
    IN  ~(\/ other_min[1] >= self.max[1]
          \/ self.min[1] >= other_max[1]
          \/ other_min[2] >= self.max[2]
          \/ self.min[2] >= other_max[2])

\* RectInt.contains
RectContains(self, other_min, other_size) ==
    LET other_max == VAdd(other_min, other_size)
    IN  /\ other_min[1] >= self.min[1]
        /\ other_max[1] <= self.max[1]
        /\ other_min[2] >= self.min[2]
        /\ other_max[2] <= self.max[2]

\* The key of candidate_positions.sort: (p.y, p.x), compared as tuples.
KeyLess(p, q) == p[2] < q[2] \/ (p[2] = q[2] /\ p[1] < q[1])

\* Insert p in a list sorted on the key, after the entries not greater.
InsertByKey(sorted, p) ==
    LET k == Cardinality({n \in 1..Len(sorted) : ~KeyLess(p, sorted[n])})
    IN  SubSeq(sorted, 1, k) \o <<p>> \o SubSeq(sorted, k + 1, Len(sorted))

RECURSIVE SortedByKey(_)
\* candidate_positions.sort(key=lambda p: (p.y, p.x)), a stable sort.
SortedByKey(s) ==
    IF s = <<>> THEN <<>>
    ELSE InsertByKey(SortedByKey(Front(s)), Last(s))

\* A plausible slip: the corner (min.x, min.y) of the island is appended for
\* both of its candidates.
OtherCandidatesMinCorner(others) ==
    [n \in 1..(2 * Len(others)) |-> others[(n + 1) \div 2].min]

RECURSIVE OtherCandidates(_)
\* The two candidates appended for each island that is not the target:
\* (max.x, min.y) and (min.x, max.y).
OtherCandidates(others) ==
    IF others = <<>> THEN <<>>
    ELSE LET r == Head(others)
         IN  <<<<r.max[1], r.min[2]>>, <<r.min[1], r.max[2]>>>>
                 \o OtherCandidates(Tail(others))

\* candidate_positions before the target's own position is added.
SortedCandidates(others) == SortedByKey(<<<<0, 0>>>> \o OtherCandidates(others))

\* The list with the target's own position tried last.
CandidatePositionsCurrentLast(target, others) ==
    Append(SortedCandidates(others), target.min)

\* candidate_positions as the loops read it: the target's own position is
\* inserted at index 0.
CandidatePositions(target, others) ==
    <<target.min>> \o SortedCandidates(others)

\* not any(r.overlaps(p, size) for r in rects)
FreeAt(p, size, others) ==
    \A n \in 1..Len(others) : ~RectOverlaps(others[n], p, size)

\* The texture rectangle tex_rect.
TexRect(texture_size) == [min |-> <<0, 0>>, max |-> <<texture_size, texture_size>>]

\* The indices of the candidates the first loop returns at.
FitsInside(cands, size, others, texture_size) ==
    {n \in 1..Len(cands) :
        RectContains(TexRect(texture_size), cands[n], size)
            /\ FreeAt(cands[n], size, others)}

\* The indices of the candidates the fallback loop returns at.
FitsAnywhere(cands, size, others) ==
    {n \in 1..Len(cands) : FreeAt(cands[n], size, others)}

\* A call of find_free_space_for_island(target_island, all_islands,
\* texture_size) as in packing.py:180, or with a fourth argument as in
\* operators.py:457. The function takes three parameters: a fourth argument
\* raises TypeError before the body runs. Else lines 94-118.
FsCall ==
    /\ fs_pc = "idle"
    /\ fs_target' \in PixelRects
    /\ \E n \in 0..MaxOthers : fs_others' \in [1..n -> PixelRects]
    /\ fs_texture_size' \in 1..MaxPixel
    /\ fs_prefer' \in {"absent", "true", "false"}
    /\ IF fs_prefer' # "absent"
       THEN /\ fs_candidates' = <<>>
            /\ fs_error' = "TypeError"
            /\ fs_pc' = "raised"
       ELSE /\ fs_candidates' = CandidatePositions(fs_target', fs_others')
            /\ fs_error' = "none"
            /\ fs_pc' = "scan"
    /\ UNCHANGED fs_result
    /\ UNCHANGED notFs

\* The first loop, lines 119-122: the first candidate that is inside the
\* texture and free is returned.
FsScan ==
    /\ fs_pc = "scan"
    /\ LET fits == FitsInside(fs_candidates, RectSize(fs_target), fs_others,
                              fs_texture_size)
       IN  IF fits # {}
           THEN /\ fs_result' = fs_candidates[MinOf(fits)]
                /\ fs_pc' = "done"
           ELSE /\ fs_pc' = "fallback"
                /\ UNCHANGED fs_result
    /\ UNCHANGED <<fs_target, fs_others, fs_texture_size, fs_prefer,
                   fs_candidates, fs_error>>
    /\ UNCHANGED notFs

\* The fallback loop and the last return, lines 124-131.
FsFallback ==
    /\ fs_pc = "fallback"
    /\ LET fits == FitsAnywhere(fs_candidates, RectSize(fs_target), fs_others)
       IN  fs_result' = IF fits # {} THEN fs_candidates[MinOf(fits)] ELSE <<0, 0>>
    /\ fs_pc' = "done"
    /\ UNCHANGED <<fs_target, fs_others, fs_texture_size, fs_prefer,
                   fs_candidates, fs_error>>
    /\ UNCHANGED notFs

FsInit == AllIdle

FsNext == FsCall \/ FsScan \/ FsFallback

FsSpec == FsInit /\ [][FsNext]_vars

\* ------------------------------------------------------------------------
\* Properties of find_free_space_for_island
\* ------------------------------------------------------------------------
\* The result the scan gives on the list cands: the first candidate inside
\* the texture and free, else the first free one, else the origin.
ScanResult(cands, target, others, texture_size) ==
    LET size == RectSize(target)
        inside == FitsInside(cands, size, others, texture_size)
        anywhere == FitsAnywhere(cands, size, others)
    IN  IF inside # {} THEN cands[MinOf(inside)]
        ELSE IF anywhere # {} THEN cands[MinOf(anywhere)]
        ELSE <<0, 0>>

\* The call with the fourth argument v has ended.
FsEnded(v) == fs_pc \in {"done", "raised"} /\ fs_prefer = v

\* C14: with prefer_current = False the call returns the first candidate, in
\* ascending (y, x) order of the origin and the two corners of every other
\* island, that lies inside the texture and overlaps no other island, else
\* the first that overlaps none. (So for one 1x1 island at (0,0) on a 2x2
\* texture and a 1x1 target the result is (1,0).)
C14_ScanOrderResult ==
    FsEnded("false")
        => /\ fs_pc = "done"
           /\ fs_result = ScanResult(CandidatePositionsCurrentLast(fs_target, fs_others),
                                     fs_target, fs_others, fs_texture_size)
           /\ (/\ fs_others = <<[min |-> <<0, 0>>, max |-> <<1, 1>>]>>
               /\ RectSize(fs_target) = <<1, 1>>
               /\ fs_texture_size = 2) => fs_result = <<1, 0>>

\* C15: the target's own position is tried before all other candidates when
\* prefer_current is true, and only after all of them when it is false.
C15_CurrentFirstOrLast ==
    /\ FsEnded("true")
          => /\ fs_pc = "done"
             /\ fs_candidates = CandidatePositions(fs_target, fs_others)
    /\ FsEnded("false")
          => /\ fs_pc = "done"
             /\ fs_candidates = CandidatePositionsCurrentLast(fs_target, fs_others)

\* ------------------------------------------------------------------------
\* Grid.fold
\* ------------------------------------------------------------------------
\* The loops of a face, in the order of face.loops: the corners SW, SE, NE,
\* NW. The uv of a loop is <<u, v>>.
SW == 1
SE == 2
NE == 3
NW == 4

\* get_loops(dir): the loops of the face on the two vertices of its edge in
\* direction dir, in the order of face.loops.
LoopsOn(dir) ==
    CASE dir = EAST -> <<SE, NE>>
      [] dir = NORTH -> <<NE, NW>>
      [] dir = WEST -> <<SW, NW>>
      [] dir = SOUTH -> <<SW, SE>>

\* The uv of the loops of the face of a straightened grid at coord.
StraightUV(coord) ==
    <<coord, VAdd(coord, <<1, 0>>), VAdd(coord, <<1, 1>>), VAdd(coord, <<0, 1>>)>>

\* ceil(a / b)
CeilDiv(a, b) == (a + b - 1) \div b

\* The loop of zip(self.get_loops(d), other.get_loops(e)): the coordinate
\* axis of the loops of self on its side d is copied from the loops of other
\* on its side e, pair by pair.
CopyAxis(uv_self, uv_other, d, e, axis) ==
    [c \in 1..4 |->
        IF \E n \in 1..2 : LoopsOn(d)[n] = c
        THEN LET n == CHOOSE n \in 1..2 : LoopsOn(d)[n] = c
             IN  [uv_self[c] EXCEPT ![axis] = uv_other[LoopsOn(e)[n]][axis]]
        ELSE uv_self[c]]

\* A plausible slip: the flips are not passed on to the choice of the side.
OverlayOnUnflipped(uv_self, uv_other, flip_x, flip_y) ==
    LET a == CopyAxis(uv_self, uv_other, WEST, WEST, 1)
        b == CopyAxis(a, uv_other, EAST, EAST, 1)
        c == CopyAxis(b, uv_other, SOUTH, SOUTH, 2)
    IN  CopyAxis(c, uv_other, NORTH, NORTH, 2)

\* GridFace.overlay_on: the uv of self after the four loops.
OverlayOn(uv_self, uv_other, flip_x, flip_y) ==
    LET a == CopyAxis(uv_self, uv_other, WEST, IF flip_x THEN EAST ELSE WEST, 1)
        b == CopyAxis(a, uv_other, EAST, IF flip_x THEN WEST ELSE EAST, 1)
        c == CopyAxis(b, uv_other, SOUTH, IF flip_y THEN NORTH ELSE SOUTH, 2)
    IN  CopyAxis(c, uv_other, NORTH, IF flip_y THEN SOUTH ELSE NORTH, 2)

\* section_width, section_height
SectionSize(size, args) ==
    <<CeilDiv(size[1], args.x_sections), CeilDiv(size[2], args.y_sections)>>

\* A plausible slip: the even sections are the ones folded back.
FoldAxisEvenFlipped(x, section_width, alternate) ==
    LET col == x \div section_width
        tx == x % section_width
        flip == (col % 2 = 0) /\ alternate
    IN  [t |-> IF flip THEN section_width - tx - 1 ELSE tx, flip |-> flip]

\* The target coordinate of one axis and whether the section is flipped:
\* col, tx = divmod(x, section_width), and tx is mirrored in an odd section
\* when alternate.
FoldAxis(x, section_width, alternate) ==
    LET col == x \div section_width
        tx == x % section_width
        flip == (col % 2 # 0) /\ alternate
    IN  [t |-> IF flip THEN section_width - tx - 1 ELSE tx, flip |-> flip]

\* by_coord.get(target_coord): the index of the face at the coordinate (the
\* last one, as the dict keeps the last value of a key), 0 for None.
FoldTarget(coords, target_coord) ==
    LET at == {n \in 1..Len(coords) : coords[n] = target_coord}
    IN  IF at = {} THEN 0 ELSE -MinOf({-n : n \in at})

\* The faces of a grid of size <<w, h>>: one per cell of the rectangle but
\* for the holes, in some order of self._faces.
FoldGrids(w, h) ==
    {cs \in SubsetsUpTo((0..(w - 1)) \X (0..(h - 1)), MaxHoles) :
        /\ \E c \in ((0..(w - 1)) \X (0..(h - 1))) \ cs : c[1] = 0
        /\ \E c \in ((0..(w - 1)) \X (0..(h - 1))) \ cs : c[2] = 0
        /\ \E c \in ((0..(w - 1)) \X (0..(h - 1))) \ cs : c[1] = w - 1
        /\ \E c \in ((0..(w - 1)) \X (0..(h - 1))) \ cs : c[2] = h - 1}

RECURSIVE CellsInOrder(_, _)
\* The cells of the set S as a list: row by row upwards, or the reverse.
CellsInOrder(S, up) ==
    IF S = {} THEN <<>>
    ELSE LET c == CHOOSE c \in S : \A d \in S : c = d \/ KeyLess(c, d)
         IN  IF up THEN <<c>> \o CellsInOrder(S \ {c}, up)
             ELSE Append(CellsInOrder(S \ {c}, up), c)

\* The call grid.fold(uv_layer, x_sections, y_sections, alternate) on a
\* straightened grid: lines 434-437.
FoldCall ==
    /\ fold_pc = "idle"
    /\ \E w, h \in 1..MaxFoldSize :
       \E holes \in FoldGrids(w, h) :
       \E up \in BOOLEAN :
          /\ fold_size' = <<w, h>>
          /\ fold_coords' = CellsInOrder(((0..(w - 1)) \X (0..(h - 1))) \ holes, up)
          /\ fold_uv' = [n \in 1..Len(fold_coords') |-> StraightUV(fold_coords'[n])]
    /\ fold_args' \in [x_sections : 1..MaxSections, y_sections : 1..MaxSections,
                       alternate : BOOLEAN]
    /\ fold_k' = 0
    /\ fold_written' = {}
    /\ fold_pc' = "loop"
    /\ UNCHANGED notFold

\* One turn of the loop over self._faces.values(), lines 438-463.
FoldStep ==
    /\ fold_pc = "loop"
    /\ fold_k < Len(fold_coords)
    /\ LET n == fold_k + 1
           coord == fold_coords[n]
           sec == SectionSize(fold_size, fold_args)
           fx == FoldAxis(coord[1], sec[1], fold_args.alternate)
           fy == FoldAxis(coord[2], sec[2], fold_args.alternate)
           target_coord == <<fx.t, fy.t>>
           target_face == FoldTarget(fold_coords, target_coord)
       IN  IF target_coord # coord /\ target_face # 0
           THEN /\ fold_uv' = [fold_uv EXCEPT
                                 ![n] = OverlayOn(@, fold_uv[target_face], fx.flip, fy.flip)]
                /\ fold_written' = fold_written \cup {n}
           ELSE UNCHANGED <<fold_uv, fold_written>>
    /\ fold_k' = fold_k + 1
    /\ UNCHANGED <<fold_size, fold_coords, fold_args, fold_pc>>
    /\ UNCHANGED notFold

\* The loop has gone through every face: fold returns.
FoldReturn ==
    /\ fold_pc = "loop"
    /\ fold_k = Len(fold_coords)
    /\ fold_pc' = "done"
    /\ UNCHANGED <<fold_size, fold_coords, fold_uv, fold_args, fold_k, fold_written>>
    /\ UNCHANGED notFold

FoldInit == AllIdle

FoldNext == FoldCall \/ FoldStep \/ FoldReturn

FoldSpec == FoldInit /\ [][FoldNext]_vars

\* ------------------------------------------------------------------------
\* Properties of Grid.fold
\* ------------------------------------------------------------------------
\* The face number n lies in block (0,0).
InBlock00(n) ==
    LET sec == SectionSize(fold_size, fold_args)
    IN  fold_coords[n][1] < sec[1] /\ fold_coords[n][2] < sec[2]

\* C13: fold never changes the uv of a face whose coordinate lies in block
\* (0,0), for every x_sections, y_sections >= 1 and either value of
\* alternate; only faces outside block (0,0) are written.
C13_FoldFrame ==
    fold_pc \in {"loop", "done"}
        => /\ \A n \in 1..Len(fold_coords) :
                 InBlock00(n) => fold_uv[n] = StraightUV(fold_coords[n])
           /\ \A n \in fold_written : ~InBlock00(n)

\* fold has returned after folding faces of an odd section back onto block
\* (0,0), which has several faces.
C13_Witness ==
    /\ fold_pc = "done"
    /\ fold_args.alternate
    /\ \E n \in fold_written : fold_uv[n] # StraightUV(fold_coords[n])
    /\ Cardinality({n \in 1..Len(fold_coords) : InBlock00(n)}) >= 2

\* ------------------------------------------------------------------------
\* PixelArray.copy_region_transformed
\* ------------------------------------------------------------------------
\* A pixel array is a record-free pair: its size <<width, height>> and its
\* pixels, a sequence with one entry per pixel standing for the four floats
\* of the pixel (so the index and the length of self.pixels are those of the
\* model times 4). Coordinates that can fall on half pixels are kept
\* doubled: a name ending in 2 is twice the value it stands for.
\*
\* A transform is the 3x3 matrix ((a, b, e), (c, d, f), (0, 0, 1)), kept as
\* the record of a, b, c, d and the doubled e2, f2.

\* floor(v) for the doubled v2
Floor2(v2) == v2 \div 2

\* ceil(v) for the doubled v2
Ceil2(v2) == -((-v2) \div 2)

\* transform @ p for the doubled point p2
Apply(t, p2) ==
    <<t.a * p2[1] + t.b * p2[2] + t.e2, t.c * p2[1] + t.d * p2[2] + t.f2>>

\* transform.inverted(), for a transform of determinant 1 or -1
Inverted(t) ==
    LET det == t.a * t.d - t.b * t.c
        ia == t.d * det
        ib == -t.b * det
        ic == -t.c * det
        id == t.a * det
    IN  [a |-> ia, b |-> ib, c |-> ic, d |-> id,
         e2 |-> -(ia * t.e2 + ib * t.f2), f2 |-> -(ic * t.e2 + id * t.f2)]

\* A plausible slip: the pivot is not pinned, the matrix turns about the
\* origin.
MatrixPinPivotNone(t, pivot2) == t

\* matrix_pin_pivot(matrix, pivot): the translation is moved by
\* pivot - matrix @ pivot.
MatrixPinPivot(t, pivot2) ==
    LET transformed_pivot == Apply(t, pivot2)
    IN  [t EXCEPT !.e2 = @ + pivot2[1] - transformed_pivot[1],
                  !.f2 = @ + pivot2[2] - transformed_pivot[2]]

\* Matrix.Identity(3)
IdentityMatrix == [a |-> 1, b |-> 0, c |-> 0, d |-> 1, e2 |-> 0, f2 |-> 0]

\* Matrix.Rotation(radians(90), 2).to_3x3()
Rotation90 == [a |-> 0, b |-> -1, c |-> 1, d |-> 0, e2 |-> 0, f2 |-> 0]

\* The matrix copy_region makes for an offset.
MoveMatrix(offset) ==
    [IdentityMatrix EXCEPT !.e2 = 2 * offset[1], !.f2 = 2 * offset[2]]

\* The doubled centre of a rectangle.
Centre2(r) == VAdd(r.min, r.max)

\* A new array whose pixels differ from every pixel of a source.
BlankPixels(size) == [n \in 1..(size[1] * size[2]) |-> 0]

\* A source whose pixels are all different.
DistinctPixels(size) == [n \in 1..(size[1] * size[2]) |-> n]

\* PixelArray.get_pixel: the coordinates wrap.
GetPixel(pixels, size, x, y) ==
    LET idx == ((y % size[2]) * size[1]) + (x % size[1])
    IN  pixels[idx + 1]

\* PixelArray.set_pixel: the coordinates wrap; the slice assignment
\* self.pixels[idx:idx+4] = pix replaces the pixel at idx, or appends it if
\* idx is past the end.
SetPixel(pixels, size, x, y, pix) ==
    LET idx == ((y % size[2]) * size[1]) + (x % size[1])
    IN  SubSeq(pixels, 1, idx) \o <<pix>> \o SubSeq(pixels, idx + 2, Len(pixels))

\* The doubled corners bl, tr, tl, br of src_rect drawn in by half a pixel,
\* transformed.
DstCorners2(rect, t) ==
    LET bl == <<2 * rect.min[1] + 1, 2 * rect.min[2] + 1>>
        tr == <<2 * rect.max[1] - 1, 2 * rect.max[2] - 1>>
        tl == <<bl[1], tr[2]>>
        br == <<tr[1], bl[2]>>
    IN  {Apply(t, bl), Apply(t, tr), Apply(t, tl), Apply(t, br)}

MaxOf(S) == -MinOf({-x : x \in S})

\* A plausible slip: the destination bounds are not clamped at 0.
DstMinNoClamp(corner_vals2) == Floor2(MinOf(corner_vals2))

\* dst_min_x, dst_min_y: max(0, floor(min(...)))
DstMin(corner_vals2) == Max2(0, Floor2(MinOf(corner_vals2)))

\* dst_max_x, dst_max_y: min(self.width, ceil(max(...)))
DstMax(corner_vals2, limit) == Min2(limit, Ceil2(MaxOf(corner_vals2)))

\* The destination bounds of lines 129-132.
DstBounds(size, rect, t) ==
    LET cs == DstCorners2(rect, t)
        xs == {p[1] : p \in cs}
        ys == {p[2] : p \in cs}
    IN  [min |-> <<DstMin(xs), DstMin(ys)>>,
         max |-> <<DstMax(xs, size[1]), DstMax(ys, size[2])>>]

RECURSIVE CopyLoopInPlace(_, _, _, _, _)
\* A plausible slip: the pixel is read from the array that is written.
CopyLoopInPlace(pixels, source, size, inv_transform, todo) ==
    IF todo = <<>> THEN pixels
    ELSE LET x == Head(todo)[1]
             y == Head(todo)[2]
             src_point2 == Apply(inv_transform, <<2 * x + 1, 2 * y + 1>>)
             pix == GetPixel(pixels, size, Floor2(src_point2[1]), Floor2(src_point2[2]))
         IN  CopyLoopInPlace(SetPixel(pixels, size, x, y, pix), source, size,
                             inv_transform, Tail(todo))

RECURSIVE CopyLoop(_, _, _, _, _)
\* The two for loops of lines 141-146 over the list todo of <<x, y>>.
CopyLoop(pixels, source, size, inv_transform, todo) ==
    IF todo = <<>> THEN pixels
    ELSE LET x == Head(todo)[1]
             y == Head(todo)[2]
             src_point2 == Apply(inv_transform, <<2 * x + 1, 2 * y + 1>>)
             pix == GetPixel(source, size, Floor2(src_point2[1]), Floor2(src_point2[2]))
         IN  CopyLoop(SetPixel(pixels, size, x, y, pix), source, size,
                      inv_transform, Tail(todo))

\* range(dst_min_y, dst_max_y) x range(dst_min_x, dst_max_x), row by row.
LoopRange(b) ==
    CellsInOrder({p \in (b.min[1]..(b.max[1] - 1)) \X (b.min[2]..(b.max[2] - 1)) : TRUE},
                 TRUE)

\* self.copy_region_transformed(source, src_rect, transform) on arrays of
\* the same size: the pixels of self afterwards.
CopyRegionTransformed(pixels, source, size, rect, t) ==
    CopyLoop(pixels, source, size, Inverted(t), LoopRange(DstBounds(size, rect, t)))

\* The rectangles inside an array of the given size.
RectsInside(size) ==
    {r \in [min : (0..size[1]) \X (0..size[2]), max : (0..size[1]) \X (0..size[2])] :
        r.min[1] < r.max[1] /\ r.min[2] < r.max[2]}

\* A copy into a new array: of a region inside the source, moved by an
\* offset (copy_region) or turned by 90 degrees about its centre.
TexCopy ==
    /\ tex_pc = "idle"
    /\ tex_size' \in (1..MaxTex) \X (1..MaxTex)
    /\ tex_rect' \in RectsInside(tex_size')
    /\ \/ /\ tex_kind' = "move"
          /\ \E offset \in ((-MaxTex)..MaxTex) \X ((-MaxTex)..MaxTex) :
                tex_transform' = MoveMatrix(offset)
       \/ /\ tex_kind' = "rot"
          /\ tex_transform' = MatrixPinPivot(Rotation90, Centre2(tex_rect'))
    /\ tex_src' = DistinctPixels(tex_size')
    /\ tex_bounds' = DstBounds(tex_size', tex_rect', tex_transform')
    /\ tex_dst' = CopyRegionTransformed(BlankPixels(tex_size'), tex_src', tex_size',
                                        tex_rect', tex_transform')
    /\ tex_pc' = "copied"
    /\ UNCHANGED tex_back
    /\ UNCHANGED notTex

\* The result is copied back into a third array under the inverse transform;
\* when the copy wrote nothing there is nothing to copy back.
TexCopyBack ==
    /\ tex_pc = "copied"
    /\ tex_back' =
          IF tex_bounds.min[1] < tex_bounds.max[1] /\ tex_bounds.min[2] < tex_bounds.max[2]
          THEN CopyRegionTransformed(BlankPixels(tex_size), tex_dst, tex_size,
                                     tex_bounds, Inverted(tex_transform))
          ELSE BlankPixels(tex_size)
    /\ tex_pc' = "back"
    /\ UNCHANGED <<tex_size, tex_src, tex_rect, tex_transform, tex_kind, tex_dst,
                   tex_bounds>>
    /\ UNCHANGED notTex

TexInit == AllIdle

TexNext == TexCopy \/ TexCopyBack

TexSpec == TexInit /\ [][TexNext]_vars

\* ------------------------------------------------------------------------
\* The operators (operators.py)
\* ------------------------------------------------------------------------
\* A scene is one object with one texture (or none) and its selected UV
\* islands. UV coordinates are kept multiplied by the texture size and
\* doubled, like the pixel coordinates of the copy. op_texture is the texture
\* as it was when the call started; the array a call assigns to
\* texture.pixels is op_pixels.

ERROR_MULTIPLE_MATERIALS == "Faces have different materials"

ERROR_TEXTURE_DIRTY == "Please save texture first, because undo doesn't work for textures."

ERROR_NO_TEXTURE_SPACE == "Not enough space to preserve texture data. Resize texture or turn off Modify Texture"

ERROR_SELECT_ALL_FACES_USING_MATERIAL == "Please select ALL faces using the material with the texture you want to resize"

ERROR_NO_MATERIAL_OR_NO_TEXTURE == "Selected faces have no material or no texture was found on the material"

\* The sizes a texture has: one too small for some islands, one that
\* resize_texture can double.
OpTextureSizes == {1, 8}

\* The pixel rectangles of the islands: side by side on the bottom row.
OpRects ==
    {[min |-> p, max |-> VAdd(p, s)] :
        p \in (0..MaxOpPos) \X {0}, s \in (1..MaxOpDim) \X (1..MaxOpDim)}

\* An island before the call: its pixel rectangle, and whether its faces
\* have different material indices.
OpIslandInputs == [rect : OpRects, multi : BOOLEAN]

\* The uv of four loops of an island, at the centres of the corner pixels of
\* its rectangle: bottom left, bottom right, top right, top left.
CornerUVs(rect) ==
    LET x0 == 2 * rect.min[1] + 1
        y0 == 2 * rect.min[2] + 1
        x1 == 2 * rect.max[1] - 1
        y1 == 2 * rect.max[2] - 1
    IN  <<<<x0, y0>>, <<x1, y0>>, <<x1, y1>>, <<x0, y1>>>>

\* uvs_transform with get_uv_space_matrix(matrix, texture_size): in pixel
\* space every uv is multiplied by the matrix.
UvsTransform(uv, matrix) == [n \in 1..Len(uv) |-> Apply(matrix, uv[n])]

\* UVIsland.calc_pixel_bounds: floor(min * texture_size - 0.3) and
\* ceil(max * texture_size + 0.3), for the doubled coordinates.
CalcPixelBounds(uv) ==
    LET xs == {uv[n][1] : n \in 1..Len(uv)}
        ys == {uv[n][2] : n \in 1..Len(uv)}
    IN  [min |-> <<(MinOf(xs) - 1) \div 2, (MinOf(ys) - 1) \div 2>>,
         max |-> <<(MaxOf(xs) + 2) \div 2, (MaxOf(ys) + 2) \div 2>>]

\* The matrix product t @ u.
MatMul(t, u) ==
    [a |-> t.a * u.a + t.b * u.c, b |-> t.a * u.b + t.b * u.d,
     c |-> t.c * u.a + t.d * u.c, d |-> t.c * u.b + t.d * u.d,
     e2 |-> t.a * u.e2 + t.b * u.f2 + t.e2,
     f2 |-> t.c * u.e2 + t.d * u.f2 + t.f2]

\* Matrix.Diagonal((-1, 1, 1)) for "X", Matrix.Diagonal((1, -1, 1)) for "Y"
FlipMatrix(flip_axis) ==
    IF flip_axis = "X"
    THEN [IdentityMatrix EXCEPT !.a = -1]
    ELSE [IdentityMatrix EXCEPT !.d = -1]

\* The pivot of uv_rot_90 and of the flip of repack_uvs, doubled:
\* (min.x + h, min.y + h) with h = size.y / 2.
RotatePivot2(rect) ==
    LET size == RectSize(rect)
    IN  <<2 * rect.min[1] + size[2], 2 * rect.min[2] + size[2]>>

\* copy_texture_region_transformed: source and destination are two copies
\* of texture.pixels; the destination is assigned to texture.pixels.
CopyTextureRegionTransformed(pixels, texture_size, region, transform) ==
    CopyRegionTransformed(pixels, pixels, <<texture_size, texture_size>>, region,
                          transform)

RECURSIVE PackAttempt(_, _, _, _)
\* One run of the for loop of pack_rects over the rest of the sorted rects:
\* the positions placed, and whether the loop ended without break.
PackAttempt(todo, space, lv, out) ==
    IF todo = <<>> THEN [full |-> TRUE, out |-> out]
    ELSE LET idx == Head(todo)[1]
             rect == Head(todo)[2]
             fitting == {n \in 1..Len(lv) : FitsRect(lv[n], rect, space)}
             y == NextStripY(lv)
         IN  IF fitting = {} /\ y + rect[2] > space
             THEN [full |-> FALSE, out |-> out]
             ELSE LET lv2 == IF fitting = {} THEN Append(lv, NewStrip(y, rect[2]))
                                             ELSE lv
                      n == IF fitting = {} THEN Len(lv2) ELSE MinOf(fitting)
                  IN  PackAttempt(Tail(todo), space,
                                  [lv2 EXCEPT ![n].filled = @ + rect[1]],
                                  Append(out, <<idx, <<PlacedX(lv2[n]), lv2[n].y>>>>))

RECURSIVE PackWhileLoop(_, _)
\* The while loop of pack_rects: attempts at growing space sizes until every
\* rect is placed.
PackWhileLoop(sorted, space) ==
    LET r == PackAttempt(sorted, space, <<>>, <<>>)
    IN  IF r.full
        THEN [positions |-> RestoreInputOrder(r.out), space_size |-> space]
        ELSE PackWhileLoop(sorted, GrowSpace(space))

\* pack_rects(rect_sizes, initial_space_size) as a function: the positions
\* and the space size it returns.
PackRects(sizes, initial) == PackWhileLoop(SortedByHeight(Enumerate(sizes)), initial)

\* What a call has done when it ends.
OpEnd(result, report, uv, pixels, writes) ==
    [result |-> result, report |-> report, uv |-> uv, pixels |-> pixels,
     writes |-> writes]

\* get_texture_for_faces on the faces of all the selected islands raises
\* MultipleMaterialsError.
AnyMulti == \E k \in 1..Len(op_islands) : op_islands[k].multi

\* unwrap_grid.execute, one quad group per island. The layout that
\* bpy.ops.uv.unwrap and straighten_uv give a group is the host's: it keeps
\* the uv of the group or lays the group out at the origin. The groups of
\* find_quad_groups are sets of quads connected across non-seam edges, for
\* which Grid raises no GridBuildException. The first pass of the loop ends
\* with the call of island_to_free_space through bpy.ops; that call ends
\* with an error for every selection (see IslandToFreeSpaceExecute), which
\* bpy.ops raises as RuntimeError in the caller: no later group is reached.
UnwrapGridExecute(moved) ==
    IF op_islands[1].multi
    THEN OpEnd("CANCELLED", ERROR_MULTIPLE_MATERIALS, op_uv, op_pixels, 0)
    ELSE LET size == RectSize(op_islands[1].rect)
             laid == IF moved THEN CornerUVs([min |-> <<0, 0>>, max |-> size])
                              ELSE op_uv[1]
         IN  OpEnd("exception", "RuntimeError", [op_uv EXCEPT ![1] = laid],
                   op_pixels, 0)

RECURSIVE UvFlipLoop(_, _, _, _, _, _)
\* The loop of uv_flip over the islands.
UvFlipLoop(k, uv, pixels, writes, flip_axis, modify_texture) ==
    IF k > Len(op_islands)
    THEN OpEnd("FINISHED", "none", uv, pixels, writes)
    ELSE IF op_islands[k].multi
    THEN OpEnd("CANCELLED", ERROR_MULTIPLE_MATERIALS, uv, pixels, writes)
    ELSE LET island_rect == CalcPixelBounds(uv[k])
             matrix == MatrixPinPivot(FlipMatrix(flip_axis), Centre2(island_rect))
             write == modify_texture /\ op_texture.present
         IN  UvFlipLoop(k + 1,
                        [uv EXCEPT ![k] = UvsTransform(@, matrix)],
                        IF write
                        THEN CopyTextureRegionTransformed(pixels, op_texture.size,
                                                          island_rect, matrix)
                        ELSE pixels,
                        IF write THEN writes + 1 ELSE writes,
                        flip_axis, modify_texture)

\* island_to_free_space.execute, started on the uv given. The first pass of
\* the loop calls find_free_space_for_island with four arguments, one more
\* than the function takes: the call raises TypeError before the island is
\* looked at, and the rest of the loop is not reached.
IslandToFreeSpaceExecute(uv, pixels) ==
    IF AnyMulti
    THEN OpEnd("CANCELLED", ERROR_MULTIPLE_MATERIALS, uv, pixels, 0)
    ELSE IF ~op_texture.present
    THEN OpEnd("CANCELLED", ERROR_NO_MATERIAL_OR_NO_TEXTURE, uv, pixels, 0)
    ELSE OpEnd("exception", "TypeError", uv, pixels, 0)

\* uv_rot_90.execute. The first pass of the loop turns the uv of the island
\* and calls island_to_free_space through bpy.ops; that call ends with an
\* error for every selection, which bpy.ops raises as RuntimeError in the
\* caller: the lines after the call are not reached.
UvRot90Execute ==
    IF op_islands[1].multi
    THEN OpEnd("CANCELLED", ERROR_MULTIPLE_MATERIALS, op_uv, op_pixels, 0)
    ELSE LET island_rect == CalcPixelBounds(op_uv[1])
             matrix == MatrixPinPivot(Rotation90, RotatePivot2(island_rect))
             turned == [op_uv EXCEPT ![1] = UvsTransform(@, matrix)]
             inner == IslandToFreeSpaceExecute(turned, op_pixels)
         IN  OpEnd("exception", "RuntimeError", inner.uv, inner.pixels, inner.writes)

\* The part of repack_uvs.execute after the checks of the selection and of
\* the dirty flag; locked[k] is is_any_orientation_locked() of island k.
RepackIslands(modify_texture, locked) ==
    LET n == Len(op_islands)
        old_rects == [k \in 1..n |-> CalcPixelBounds(op_uv[k])]
        need_flip == [k \in 1..n |->
                        ~locked[k]
                        /\ RectSize(old_rects[k])[2] > RectSize(old_rects[k])[1]]
        sizes == [k \in 1..n |->
                    IF need_flip[k]
                    THEN <<RectSize(old_rects[k])[2], RectSize(old_rects[k])[1]>>
                    ELSE RectSize(old_rects[k])]
        texture_size == op_texture.size
        min_size == IF texture_size % 2 = 0 THEN texture_size \div 2 ELSE texture_size
        packed == PackRects(sizes, min_size)
        matrix == [k \in 1..n |->
                     LET move == MoveMatrix(VSub(packed.positions[k], old_rects[k].min))
                     IN  IF need_flip[k]
                         THEN MatMul(move, MatrixPinPivot(Rotation90,
                                                          RotatePivot2(old_rects[k])))
                         ELSE move]
    IN  IF modify_texture
        THEN IF packed.space_size > texture_size
             THEN OpEnd("CANCELLED", ERROR_NO_TEXTURE_SPACE, op_uv, op_pixels, 0)
             \* PixelArray(blender_image=self.texture): the operator has no
             \* attribute texture
             ELSE OpEnd("exception", "AttributeError", op_uv, op_pixels, 0)
        ELSE OpEnd("FINISHED", "none",
                   [k \in 1..n |-> UvsTransform(op_uv[k], matrix[k])], op_pixels, 0)

\* The checks that resize_texture and repack_uvs start with: "none" or the
\* error reported; unselected says that a face using the material is not
\* selected.
SelectionError(unselected) ==
    IF AnyMulti THEN ERROR_MULTIPLE_MATERIALS
    ELSE IF ~op_texture.present THEN ERROR_NO_MATERIAL_OR_NO_TEXTURE
    ELSE IF unselected THEN ERROR_SELECT_ALL_FACES_USING_MATERIAL
    ELSE IF op_texture.dirty THEN ERROR_TEXTURE_DIRTY
    ELSE "none"

\* dst_pixels.copy_region(src_pixels, (0, 0), (new_size, new_size), (0, 0))
\* into a new array of new_size: every pixel is read from the source, whose
\* coordinates wrap.
ResizedPixels(source, texture_size, new_size) ==
    [n \in 1..(new_size * new_size) |->
        GetPixel(source, <<texture_size, texture_size>>,
                 (n - 1) % new_size, (n - 1) \div new_size)]

\* The state a call leaves.
OpDone(name, modify_texture, end) ==
    /\ op_name' = name
    /\ op_modify' = modify_texture
    /\ op_result' = end.result
    /\ op_report' = end.report
    /\ op_uv' = end.uv
    /\ op_pixels' = end.pixels
    /\ op_writes' = end.writes
    /\ op_pc' = "done"
    /\ UNCHANGED <<op_texture, op_islands>>
    /\ UNCHANGED notOp

\* The scene before a call: poll() holds, some faces are selected; the
\* rectangles of the islands do not overlap, so merge_overlapping_islands
\* returns them as they are.
OpSetup ==
    /\ op_pc = "idle"
    /\ \E n \in 1..MaxOpIslands :
          op_islands' \in
             {s \in [1..n -> OpIslandInputs] :
                 \A i, j \in 1..n :
                    i < j => ~RectOverlaps(s[i].rect, s[j].rect.min,
                                           RectSize(s[j].rect))}
    /\ op_texture' \in {t \in [present : BOOLEAN, size : OpTextureSizes,
                               dirty : BOOLEAN] : t.dirty => t.present}
    /\ op_uv' = [k \in 1..Len(op_islands') |-> CornerUVs(op_islands'[k].rect)]
    /\ op_pixels' = IF op_texture'.present
                    THEN DistinctPixels(<<op_texture'.size, op_texture'.size>>)
                    ELSE <<>>
    /\ op_pc' = "ready"
    /\ UNCHANGED <<op_name, op_modify, op_result, op_report, op_writes>>
    /\ UNCHANGED notOp

\* PIXUNWRAP_OT_unwrap_grid.execute
UnwrapGrid ==
    /\ op_pc = "ready"
    /\ \E moved \in BOOLEAN :
          OpDone("unwrap_grid", FALSE, UnwrapGridExecute(moved))

\* PIXUNWRAP_OT_uv_flip.execute
UvFlip ==
    /\ op_pc = "ready"
    /\ \E flip_axis \in {"X", "Y"}, modify_texture \in BOOLEAN :
          OpDone("uv_flip", modify_texture,
                 UvFlipLoop(1, op_uv, op_pixels, 0, flip_axis, modify_texture))

\* PIXUNWRAP_OT_uv_rot_90.execute
UvRot90 ==
    /\ op_pc = "ready"
    /\ \E modify_texture \in BOOLEAN :
          OpDone("uv_rot_90", modify_texture, UvRot90Execute)

\* PIXUNWRAP_OT_island_to_free_space.execute
IslandToFreeSpace ==
    /\ op_pc = "ready"
    /\ \E modify_texture \in BOOLEAN :
          OpDone("island_to_free_space", modify_texture,
                 IslandToFreeSpaceExecute(op_uv, op_pixels))

\* PIXUNWRAP_OT_repack_uvs.execute
RepackUvs ==
    /\ op_pc = "ready"
    /\ \E modify_texture, unselected \in BOOLEAN,
          locked \in [1..Len(op_islands) -> BOOLEAN] :
          OpDone("repack_uvs", modify_texture,
                 IF SelectionError(unselected) # "none"
                 THEN OpEnd("CANCELLED", SelectionError(unselected), op_uv, op_pixels, 0)
                 ELSE RepackIslands(modify_texture, locked))

\* PIXUNWRAP_OT_resize_texture.execute
ResizeTexture ==
    /\ op_pc = "ready"
    /\ \E scale \in {1, 2}, unselected \in BOOLEAN :
          LET new_size == op_texture.size * scale
          IN  OpDone("resize_texture", FALSE,
                     IF SelectionError(unselected) # "none"
                     THEN OpEnd("CANCELLED", SelectionError(unselected), op_uv,
                                op_pixels, 0)
                     ELSE IF new_size < 16
                     THEN OpEnd("CANCELLED", "That's too small.", op_uv, op_pixels, 0)
                     ELSE IF new_size > 8192
                     THEN OpEnd("CANCELLED", "that's probably too big.", op_uv,
                                op_pixels, 0)
                     \* uvs_scale by texture_size / new_size: the uv keep
                     \* their pixels
                     ELSE OpEnd("FINISHED", "none", op_uv,
                                ResizedPixels(op_pixels, op_texture.size, new_size), 1))

OpInit == AllIdle

OpNext ==
    OpSetup \/ UnwrapGrid \/ UvFlip \/ UvRot90 \/ IslandToFreeSpace \/ RepackUvs
    \/ ResizeTexture

OpSpec == OpInit /\ [][OpNext]_vars

\* ------------------------------------------------------------------------
\* get_islands_for_faces, get_connected_components (islands.py)
\* ------------------------------------------------------------------------
\* Faces are their indices 0..n-1; a key stands for one pair
\* (l[uv_layer].uv.to_tuple(5), l.vert.index).

\* The keys a face can have: every face has a loop.
CcKeySets == SUBSET (1..MaxCcKeys) \ {{}}

\* face_to_verts[face_idx], built from the faces passed
FaceToVerts(face_idx) == cc_loops[face_idx + 1]

\* vert_to_faces[id_], built from the faces passed
VertToFaces(id_) == {f \in cc_faces : id_ \in cc_loops[f + 1]}

\* A plausible slip: only one key of the face is followed.
GetConnectedFacesOneKey(face_idx) == VertToFaces(MinOf(FaceToVerts(face_idx)))

\* get_connected_faces(face_idx): the faces it yields, as a set
GetConnectedFaces(face_idx) ==
    UNION {VertToFaces(vid) : vid \in FaceToVerts(face_idx)}

RECURSIVE AscendingSeq(_)
\* The elements of a set of numbers as a sequence, smallest first.
AscendingSeq(S) ==
    IF S = {} THEN <<>>
    ELSE LET x == MinOf(S) IN <<x>> \o AscendingSeq(S \ {x})

\* The call: lines 260-268 build the lookups from the loops of the faces
\* passed; get_connected_components starts with remaining = set(nodes).
CcCall ==
    /\ cc_pc = "idle"
    /\ \E n \in 1..MaxCcFaces :
          /\ cc_loops' \in [1..n -> CcKeySets]
          /\ cc_faces' \in SUBSET (0..(n - 1))
    /\ cc_remaining' = cc_faces'
    /\ cc_components' = <<>>
    /\ cc_current' = <<>>
    /\ cc_stack' = <<>>
    /\ cc_pc' = "outer"
    /\ UNCHANGED notCc

\* while remaining: node = next(iter(remaining)), any element of the set;
\* after the loop the components are returned and one UVIsland is made of
\* each.
CcOuter ==
    /\ cc_pc = "outer"
    /\ IF cc_remaining = {}
       THEN /\ cc_pc' = "done"
            /\ UNCHANGED <<cc_current, cc_stack>>
       ELSE /\ \E node \in cc_remaining : cc_stack' = <<node>>
            /\ cc_current' = <<>>
            /\ cc_pc' = "inner"
    /\ UNCHANGED <<cc_loops, cc_faces, cc_remaining, cc_components>>
    /\ UNCHANGED notCc

\* while nodes_to_add: one pop, and the append of the finished component
\* when the list is empty. The connections are put on the list smallest
\* first.
CcInner ==
    /\ cc_pc = "inner"
    /\ IF cc_stack = <<>>
       THEN /\ cc_components' = Append(cc_components, cc_current)
            /\ cc_pc' = "outer"
            /\ UNCHANGED <<cc_remaining, cc_current, cc_stack>>
       ELSE LET node_to_add == Last(cc_stack)
            IN  IF node_to_add \in cc_remaining
                THEN /\ cc_remaining' = cc_remaining \ {node_to_add}
                     /\ cc_current' = Append(cc_current, node_to_add)
                     /\ cc_stack' = Front(cc_stack)
                                      \o AscendingSeq(GetConnectedFaces(node_to_add))
                     /\ UNCHANGED <<cc_components, cc_pc>>
                ELSE /\ cc_stack' = Front(cc_stack)
                     /\ UNCHANGED <<cc_remaining, cc_current, cc_components, cc_pc>>
    /\ UNCHANGED <<cc_loops, cc_faces>>
    /\ UNCHANGED notCc

CcInit == AllIdle

CcNext == CcCall \/ CcOuter \/ CcInner

CcSpec == CcInit /\ [][CcNext]_vars

\* ------------------------------------------------------------------------
\* Grid.realign_to_uv_map, GridFace.transform_coords, Direction.transform
\* ------------------------------------------------------------------------
\* The grid is the one Grid.__init__ builds on a rectangular patch of quads:
\* the face of cell c has coord c, and its edge in direction d is the edge
\* between cell c and cell c + d.vector(), written as the set of the two
\* cells (a cell outside the patch for a boundary edge). Matrices are the
\* records of the texture section with e2, f2 the translation in cells.

\* The ways a uv map can lie on the grid frame: the uv of a grid point p is
\* the image of p under a turn by a multiple of 90 degrees, mirrored or not.
UvOrientations ==
    {t \in [a : -1..1, b : -1..1, c : -1..1, d : -1..1, e2 : {0}, f2 : {0}] :
        /\ t.a * t.b = 0 /\ t.c * t.d = 0
        /\ t.a * t.d - t.b * t.c \in {-1, 1}}

\* The cells of a patch of the size, row by row.
PatchCells(size) ==
    [k \in 1..(size[1] * size[2]) |->
        <<(k - 1) % size[1], (k - 1) \div size[1]>>]

\* The GridFace of a cell after Grid.__init__.
BuiltFace(c) ==
    [coord |-> c, edges |-> [d \in 1..4 |-> {c, VAdd(c, DirVector(d - 1))}]]

Abs(x) == IF x < 0 THEN -x ELSE x

\* GridFace.average_edge_dir(uv_layer) as <<north_dir, east_dir>>: the uv
\* of the corners between the face's edges, for unit cells.
AverageEdgeDir(face, uv) ==
    LET c == CHOOSE x \in face.edges[1] \cap face.edges[2] : TRUE
        corner(d1, d2) ==
            LET v == VAdd(<<1, 1>>, VAdd(DirVector(d1), DirVector(d2)))
            IN  VAdd(c, <<v[1] \div 2, v[2] \div 2>>)
        ne == Apply(uv, corner(NORTH, EAST))
        sw == Apply(uv, corner(SOUTH, WEST))
        nw == Apply(uv, corner(NORTH, WEST))
    IN  <<VSub(nw, sw), VSub(ne, nw)>>

\* Direction.transform(matrix)
DirTransform(d, matrix) ==
    LET v == Apply([matrix EXCEPT !.e2 = 0, !.f2 = 0], DirVector(d))
    IN  IF Abs(v[1]) > Abs(v[2])
        THEN IF v[1] > 0 THEN EAST ELSE WEST
        ELSE IF v[2] > 0 THEN NORTH ELSE SOUTH

\* GridFace.transform_coords(matrix)
TransformCoords(face, matrix) ==
    [coord |-> Apply(matrix, face.coord),
     edges |-> [d \in 1..4 |-> face.edges[DirTransform(d - 1, matrix) + 1]]]

\* Matrix([[0, 1, 0], [1, 0, 0], [0, 0, 1]])
TransposeMatrix == [a |-> 0, b |-> 1, c |-> 1, d |-> 0, e2 |-> 0, f2 |-> 0]

\* Matrix([[-1, 0, self.size.x - 1], [0, 1, 0], [0, 0, 1]])
FlipHorizontalMatrix(size) ==
    [a |-> -1, b |-> 0, c |-> 0, d |-> 1, e2 |-> size[1] - 1, f2 |-> 0]

\* Matrix([[1, 0, 0], [0, -1, self.size.y - 1], [0, 0, 1]])
FlipVerticalMatrix(size) ==
    [a |-> 1, b |-> 0, c |-> 0, d |-> -1, e2 |-> 0, f2 |-> size[2] - 1]

\* Lines 366-393 for the sums north_avg and east_avg: the size, the matrix
\* and do_transform.
RealignPlan(size, north_avg, east_avg) ==
    LET transpose == Abs(north_avg[1]) > Abs(north_avg[2])
        m1 == IF transpose THEN MatMul(IdentityMatrix, TransposeMatrix)
              ELSE IdentityMatrix
        size1 == IF transpose THEN <<size[2], size[1]>> ELSE size
        north == IF transpose THEN <<north_avg[2], north_avg[1]>> ELSE north_avg
        east == IF transpose THEN <<east_avg[2], east_avg[1]>> ELSE east_avg
        m2 == IF east[1] < 0 THEN MatMul(FlipHorizontalMatrix(size1), m1) ELSE m1
        m3 == IF north[2] < 0 THEN MatMul(FlipVerticalMatrix(size1), m2) ELSE m2
    IN  [size |-> size1, matrix |-> m3,
         do_transform |-> transpose \/ east[1] < 0 \/ north[2] < 0]

\* The call on a built grid, up to the last loop: the sums of the faces'
\* directions (every face of the patch has the same), then the plan.
RealignCall ==
    /\ rl_pc = "idle"
    /\ \E size \in (1..MaxRealignDim) \X (1..MaxRealignDim), uv \in UvOrientations :
          LET cells == PatchCells(size)
              n == Len(cells)
              dirs == AverageEdgeDir(BuiltFace(cells[1]), uv)
              plan == RealignPlan(size, <<n * dirs[1][1], n * dirs[1][2]>>,
                                  <<n * dirs[2][1], n * dirs[2][2]>>)
          IN  /\ rl_uv' = uv
              /\ rl_faces' = [c \in Range(cells) |-> BuiltFace(c)]
              /\ rl_size' = plan.size
              /\ rl_matrix' = plan.matrix
              /\ rl_todo' = IF plan.do_transform THEN cells ELSE <<>>
              /\ rl_pc' = IF plan.do_transform THEN "loop" ELSE "done"
    /\ UNCHANGED notRl

\* for face in self.get_faces(): face.transform_coords(matrix)
RealignLoop ==
    /\ rl_pc = "loop"
    /\ LET c == Head(rl_todo)
       IN  rl_faces' = [rl_faces EXCEPT ![c] = TransformCoords(rl_faces[c], rl_matrix)]
    /\ rl_todo' = Tail(rl_todo)
    /\ rl_pc' = IF Tail(rl_todo) = <<>> THEN "done" ELSE "loop"
    /\ UNCHANGED <<rl_size, rl_uv, rl_matrix>>
    /\ UNCHANGED notRl

RlInit == AllIdle

RlNext == RealignCall \/ RealignLoop

RealignSpec == RlInit /\ [][RlNext]_vars

\* ------------------------------------------------------------------------
\* copy_texture_region (texture.py)
\* ------------------------------------------------------------------------
\* PixelArray.copy_region(source, src_pos, size, dst_pos) on self.pixels
CopyRegion(pixels, source, array_size, src_pos, size, dst_pos) ==
    CopyRegionTransformed(pixels, source, array_size,
                          [min |-> src_pos, max |-> VAdd(src_pos, size)],
                          MoveMatrix(VSub(dst_pos, src_pos)))

\* The call, lines 12-13: two PixelArrays are made of the texture, each with
\* its own list of the texture's pixels.
CtrCall ==
    /\ ctr_pc = "idle"
    /\ \E w, h \in 1..MaxTex :
          /\ ctr_size' = <<w, h>>
          /\ ctr_args' \in [src_pos : (-1..w) \X (-1..h), size : (1..w) \X (1..h),
                            dst_pos : (-1..w) \X (-1..h)]
    /\ ctr_before' = DistinctPixels(ctr_size')
    /\ ctr_pixels' = ctr_before'
    /\ ctr_src' = ctr_before'
    /\ ctr_dst' = ctr_before'
    /\ ctr_pc' = "arrays"
    /\ UNCHANGED notCtr

\* Lines 14-16: the copy into dst_pixels, and its list becomes the
\* texture's pixels.
CtrCopy ==
    /\ ctr_pc = "arrays"
    /\ ctr_dst' = CopyRegion(ctr_dst, ctr_src, ctr_size, ctr_args.src_pos,
                             ctr_args.size, ctr_args.dst_pos)
    /\ ctr_pixels' = ctr_dst'
    /\ ctr_pc' = "done"
    /\ UNCHANGED <<ctr_size, ctr_before, ctr_args, ctr_src>>
    /\ UNCHANGED notCtr

CtrInit == AllIdle

CtrNext == CtrCall \/ CtrCopy

CtrSpec == CtrInit /\ [][CtrNext]_vars

\* ------------------------------------------------------------------------
\* UVIsland.get_boundary_loops (islands.py)
\* ------------------------------------------------------------------------
\* The island is a set of triangles of the mesh; a face is the set of its
\* three verts and an edge the set of its two verts. The part of the method
\* that finds the loops is modelled (lines 135-182); the conversion of the
\* loops found to (vert, uv) pairs after it is not.

\* The verts of the mesh: enough for the faces to lie apart.
LoopVerts == 1..(2 * MaxLoopFaces + 1)

\* The triangles of the mesh.
LoopTriangles == {f \in SUBSET LoopVerts : Cardinality(f) = 3}

\* face.edges
EdgesOfFace(f) == {e \in SUBSET f : Cardinality(e) = 2}

\* edge_face_count[edge]
EdgeFaceCount(faces, edge) == Cardinality({f \in faces : edge \in EdgesOfFace(f)})

\* boundary_edges
BoundaryEdges(faces) ==
    {e \in UNION {EdgesOfFace(f) : f \in faces} : EdgeFaceCount(faces, e) = 1}

\* vert_connections[v]
VertConnections(faces, v) ==
    {w \in LoopVerts : {v, w} \in BoundaryEdges(faces) /\ w # v}

\* The call up to the outer loop: lines 135-152.
BoundaryLoopsCall ==
    /\ bl_pc = "idle"
    /\ bl_faces' \in SubsetsUpTo(LoopTriangles, MaxLoopFaces) \ {{}}
    /\ bl_remaining' = BoundaryEdges(bl_faces')
    /\ bl_loops' = <<>>
    /\ bl_current_loop' = <<>>
    /\ bl_error' = "none"
    /\ bl_pc' = "outer"
    /\ UNCHANGED notBl

\* while remaining_edges: the start of a loop from any remaining edge, at
\* its vert 0 (either of its two verts), or the end of the search. A run
\* that has made more loops than there are boundary edges is not followed
\* further.
BoundaryLoopsOuter ==
    /\ bl_pc = "outer"
    /\ Len(bl_loops) <= Cardinality(BoundaryEdges(bl_faces))
    /\ IF bl_remaining = {}
       THEN /\ bl_pc' = "returned"
            /\ UNCHANGED bl_current_loop
       ELSE /\ \E start_edge \in bl_remaining : \E start_vert \in start_edge :
                  bl_current_loop' = <<start_vert>>
            /\ bl_pc' = "walk"
    /\ UNCHANGED <<bl_faces, bl_remaining, bl_loops, bl_error>>
    /\ UNCHANGED notBl

\* The end of a walk: lines 176-179.
CloseLoop ==
    IF bl_current_loop[1] # Last(bl_current_loop)
    THEN /\ bl_error' = "ValueError"
         /\ bl_pc' = "raised"
         /\ UNCHANGED <<bl_loops, bl_current_loop, bl_remaining>>
    ELSE /\ bl_loops' = Append(bl_loops, Front(bl_current_loop))
         /\ bl_pc' = "outer"
         /\ UNCHANGED <<bl_current_loop, bl_remaining, bl_error>>

\* One turn of "while True", lines 163-174: next_vert is the first vert of
\* the set vert_connections[current], in the order the set is gone through,
\* that is not the vert before current; next() without such a vert raises
\* StopIteration outside the try.
BoundaryLoopsWalk ==
    /\ bl_pc = "walk"
    /\ LET current == Last(bl_current_loop)
           candidates ==
               {v \in VertConnections(bl_faces, current) :
                   Len(bl_current_loop) < 2
                   \/ v # bl_current_loop[Len(bl_current_loop) - 1]}
       IN  IF candidates = {}
           THEN /\ bl_error' = "StopIteration"
                /\ bl_pc' = "raised"
                /\ UNCHANGED <<bl_loops, bl_current_loop, bl_remaining>>
           ELSE \E next_vert \in candidates :
                    IF {current, next_vert} \in bl_remaining
                    THEN /\ bl_remaining' = bl_remaining \ {{current, next_vert}}
                         /\ bl_current_loop' = Append(bl_current_loop, next_vert)
                         /\ UNCHANGED <<bl_loops, bl_error, bl_pc>>
                    ELSE CloseLoop
    /\ UNCHANGED bl_faces
    /\ UNCHANGED notBl

BlInit == AllIdle

BlNext == BoundaryLoopsCall \/ BoundaryLoopsOuter \/ BoundaryLoopsWalk

\* get_boundary_loops is one synchronous call: it is made and runs on while
\* it has a step to take.
BoundaryLoopsSpec == BlInit /\ [][BlNext]_vars /\ WF_vars(BlNext)

\* ------------------------------------------------------------------------
\* find_quad_groups (islands.py) and the Grid of a quad group
\* ------------------------------------------------------------------------
\* A plausible slip: the test for seams is left out.
ConnectedFacesOverSeams(m, face) ==
    UNION {{f \in DOMAIN m.sides : edge \in Range(m.sides[f])} \ {face} :
               edge \in Range(m.sides[face])}

\* connected_faces(face) on the mesh m: the faces it yields, as a set
ConnectedFaces(m, face) ==
    UNION {{f \in DOMAIN m.sides : edge \in Range(m.sides[f])} \ {face} :
               edge \in {e \in Range(m.sides[face]) : e \notin m.seam}}

RECURSIVE ComponentWhile(_, _, _, _)
\* The inner loop of get_connected_components with connected_faces: the
\* component it ends with and what is left of remaining.
ComponentWhile(m, nodes_to_add, remaining, current_component) ==
    IF nodes_to_add = <<>>
    THEN [component |-> current_component, remaining |-> remaining]
    ELSE LET node_to_add == Last(nodes_to_add)
         IN  IF node_to_add \in remaining
             THEN ComponentWhile(m,
                                 Front(nodes_to_add)
                                     \o Ascending(ConnectedFaces(m, node_to_add)),
                                 remaining \ {node_to_add},
                                 Append(current_component, node_to_add))
             ELSE ComponentWhile(m, Front(nodes_to_add), remaining,
                                 current_component)

RECURSIVE ComponentsWhile(_, _, _)
\* The outer loop of get_connected_components; next(iter(remaining)) is
\* taken to be the smallest face index.
ComponentsWhile(m, remaining, connected_components) ==
    IF remaining = {} THEN connected_components
    ELSE LET c == ComponentWhile(m, <<MinOf(remaining)>>, remaining, <<>>)
         IN  ComponentsWhile(m, c.remaining,
                             Append(connected_components, c.component))

\* quad_groups of find_quad_groups(faces) on the mesh m
QuadGroups(m, faces) ==
    ComponentsWhile(m, {f \in faces : Len(m.sides[f]) = 4}, <<>>)

\* The loop of unwrap_grid and of uv_grid_fold at one of the quad groups of
\* the selected faces: the call Grid(bm, quad_group) up to the first _walk
\* call. The start face is bm.faces.active if it is in the group, else the
\* first face of the group: any face of the group. The host lists the edges
\* of the start face from the first side of its cycle.
QuadGroupCall ==
    /\ grid_pc = "idle"
    /\ \E sh \in MeshShapes :
       \E cw \in BOOLEAN :
       \E defects \in SubsetsUpTo(ShapeDefects(sh), MaxDefects) :
          LET seams == {d[2] : d \in {x \in defects : x[1] = "seam"}}
              unselected == {d[2] : d \in {x \in defects : x[1] = "missing"}}
              tris == {d[2] : d \in {x \in defects : x[1] = "tri"}}
              selected_faces == PatchFaces(sh.cols, sh.rows) \ unselected
              bm == [kind |-> sh.kind, cols |-> sh.cols, rows |-> sh.rows,
                     sides |-> MeshSides(sh, cw, tris), seam |-> seams]
              quad_groups == QuadGroups(bm, selected_faces)
          IN  /\ mesh' = bm
              /\ \E k \in 1..Len(quad_groups) : grid_sel' = Range(quad_groups[k])
              /\ grid_start' \in grid_sel'
              /\ IF \E f \in grid_sel' : Len(mesh'.sides[f]) # 4
                 THEN \* raise Exception("Selection contains non-quads")
                      /\ grid_first_edge' = <<>>
                      /\ grid_faces' = [f \in grid_sel' |-> NoneFace]
                      /\ grid_stack' = <<>>
                      /\ grid_error' = "Exception"
                      /\ grid_pc' = "raised"
                 ELSE /\ grid_first_edge' = FaceEdges(mesh'.sides[grid_start'], 0)[1]
                      /\ grid_faces' = [f \in grid_sel' |->
                                           IF f = grid_start' THEN GridFace(<<0, 0>>)
                                           ELSE NoneFace]
                      /\ grid_stack' = <<WalkFrame(grid_start', mesh'.sides[grid_start'],
                                                   <<0, 0>>, grid_first_edge',
                                                   NORTH, 0)>>
                      /\ grid_error' = "none"
                      /\ grid_pc' = "walk"
    /\ UNCHANGED <<grid_size, grid_unreached>>
    /\ UNCHANGED notGrid

QuadGroupNext == QuadGroupCall \/ GridWalk \/ GridFinish

QuadGroupSpec == GridInit /\ [][QuadGroupNext]_vars


\* ------------------------------------------------------------------------
\* find_corner_points (islands.py)
\* ------------------------------------------------------------------------
\* The uv coordinates a point of the loop can have, in pixels.
CornerUvs == (0..MaxCornerUv) \X (0..MaxCornerUv)

\* The corners of the bounding rectangle of the uvs, as rectify builds
\* corner_uvs: bottom left, bottom right, top right, top left.
CornerPointsOf(loop) ==
    LET xs == {loop[n][1] : n \in 1..Len(loop)}
        ys == {loop[n][2] : n \in 1..Len(loop)}
        min_x == CHOOSE x \in xs : \A o \in xs : x <= o
        max_x == CHOOSE x \in xs : \A o \in xs : x >= o
        min_y == CHOOSE y \in ys : \A o \in ys : y <= o
        max_y == CHOOSE y \in ys : \A o \in ys : y >= o
    IN  <<<<min_x, min_y>>, <<max_x, min_y>>, <<max_x, max_y>>, <<min_x, max_y>>>>

\* The square of (uv - corner).length: the distances are only compared,
\* and squaring keeps their order.
UvDistance(uv, corner) ==
    LET d == VSub(uv, corner) IN d[1] * d[1] + d[2] * d[2]

\* distances as the two nested loops append them: (loop_idx, corner_idx,
\* distance), loop_idx outermost, both indices counted from 0.
CornerDistances(loop, corners) ==
    [n \in 1..(Len(loop) * Len(corners)) |->
        LET loop_idx == (n - 1) \div Len(corners)
            corner_idx == (n - 1) % Len(corners)
        IN  <<loop_idx, corner_idx,
              UvDistance(loop[loop_idx + 1], corners[corner_idx + 1])>>]

\* One insertion of a stable ascending sort on element k of the tuples.
InsertByField(sorted, p, k) ==
    LET pos == Cardinality({n \in 1..Len(sorted) : sorted[n][k] <= p[k]})
    IN  SubSeq(sorted, 1, pos) \o <<p>> \o SubSeq(sorted, pos + 1, Len(sorted))

RECURSIVE SortedByField(_, _)
\* list.sort(key=lambda x: x[k - 1]), a stable sort.
SortedByField(s, k) ==
    IF s = <<>> THEN <<>>
    ELSE InsertByField(SortedByField(Front(s), k), Last(s), k)

RECURSIVE TakeMatches(_, _)
\* The loop over the sorted distances: the closest matches are taken, no
\* point and no corner twice, until four are found.
TakeMatches(distances, corner_matches) ==
    IF distances = <<>> \/ Len(corner_matches) >= 4 THEN corner_matches
    ELSE LET d == Head(distances)
             used_loop_indices == {corner_matches[n][1] : n \in 1..Len(corner_matches)}
             used_corner_indices == {corner_matches[n][2] : n \in 1..Len(corner_matches)}
         IN  IF d[1] \notin used_loop_indices /\ d[2] \notin used_corner_indices
             THEN TakeMatches(Tail(distances), Append(corner_matches, <<d[1], d[2]>>))
             ELSE TakeMatches(Tail(distances), corner_matches)

\* ordered_indices: the matches sorted by corner_idx, their loop indices.
OrderedIndices(distances) ==
    LET corner_matches == SortedByField(TakeMatches(distances, <<>>), 2)
    IN  [n \in 1..Len(corner_matches) |-> corner_matches[n][1]]

\* sorted(ordered_indices).
SortedIndices(ordered_indices) ==
    LET pairs == SortedByField([n \in 1..Len(ordered_indices) |->
                                   <<ordered_indices[n]>>], 1)
    IN  [n \in 1..Len(pairs) |-> pairs[n][1]]

\* loop_order_indices after the rotation that brings min(ordered_indices)
\* to the front.
LoopOrderIndices(ordered_indices) ==
    LET loop_order_indices == SortedIndices(ordered_indices)
        least == CHOOSE i \in Range(ordered_indices) :
                     \A o \in Range(ordered_indices) : i <= o
        start_idx == (CHOOSE n \in 1..Len(loop_order_indices) :
                         /\ loop_order_indices[n] = least
                         /\ \A k \in 1..(n - 1) : loop_order_indices[k] # least) - 1
    IN  SubSeq(loop_order_indices, start_idx + 1, Len(loop_order_indices))
            \o SubSeq(loop_order_indices, 1, start_idx)

\* relative_indices: each index less the first, wrapped by len(loop).
RelativeIndices(ordered_indices, loop_len) ==
    LET loop_order_indices == LoopOrderIndices(ordered_indices)
        first_idx == loop_order_indices[1]
    IN  [n \in 1..Len(loop_order_indices) |->
            LET rel_idx == loop_order_indices[n] - first_idx
            IN  IF rel_idx < 0 THEN rel_idx + loop_len ELSE rel_idx]

\* diffs of neighbouring relative indices.
IndexDiffs(ordered_indices, loop_len) ==
    LET relative_indices == RelativeIndices(ordered_indices, loop_len)
    IN  [n \in 1..(Len(relative_indices) - 1) |->
            relative_indices[n + 1] - relative_indices[n]]

\* The test that guards the raise: the diffs are neither all positive nor
\* all negative.
FailsValidation(ordered_indices, loop_len) ==
    LET diffs == IndexDiffs(ordered_indices, loop_len)
    IN  ~ \/ \A n \in 1..Len(diffs) : diffs[n] > 0
          \/ \A n \in 1..Len(diffs) : diffs[n] < 0

\* The call with the longest boundary loop of an island and the corners of
\* its bounding rectangle; the distances are collected and sorted.
FindCornerPointsCall ==
    /\ cp_pc = "idle"
    /\ \E n \in 3..MaxCornerLoop : cp_loop' \in [1..n -> CornerUvs]
    /\ cp_corners' = CornerPointsOf(cp_loop')
    /\ cp_distances' = SortedByField(CornerDistances(cp_loop', cp_corners'), 3)
    /\ cp_pc' = "match"
    /\ UNCHANGED <<cp_ordered_indices, cp_result, cp_error>>
    /\ UNCHANGED notCp

\* The closest matches are taken and put in corner order.
FindCornerPointsMatch ==
    /\ cp_pc = "match"
    /\ cp_ordered_indices' = OrderedIndices(cp_distances)
    /\ cp_pc' = "validate"
    /\ UNCHANGED <<cp_loop, cp_corners, cp_distances, cp_result, cp_error>>
    /\ UNCHANGED notCp

\* The validation and the return.
FindCornerPointsValidate ==
    /\ cp_pc = "validate"
    /\ IF FailsValidation(cp_ordered_indices, Len(cp_loop))
       THEN /\ cp_error' = "ValueError"
            /\ cp_result' = <<>>
            /\ cp_pc' = "raised"
       ELSE /\ cp_error' = "none"
            /\ cp_result' = <<[n \in 1..Len(cp_ordered_indices) |->
                                  cp_loop[cp_ordered_indices[n] + 1]],
                              cp_ordered_indices>>
            /\ cp_pc' = "returned"
    /\ UNCHANGED <<cp_loop, cp_corners, cp_distances, cp_ordered_indices>>
    /\ UNCHANGED notCp

CpInit == AllIdle

CpNext == FindCornerPointsCall \/ FindCornerPointsMatch \/ FindCornerPointsValidate

CornerSpec == CpInit /\ [][CpNext]_vars

\* ------------------------------------------------------------------------
\* Properties of pack_rects
\* ------------------------------------------------------------------------
\* The half-open rectangles [p, p + s) and [q, q + t) do not intersect.
Disjoint(p, s, q, t) ==
    \/ p[1] + s[1] <= q[1]
    \/ q[1] + t[1] <= p[1]
    \/ p[2] + s[2] <= q[2]
    \/ q[2] + t[2] <= p[2]

\* The current rectangle of the for loop.
CurRect == rects[pack_k][2]

InForBody == pack_pc = "for" /\ pack_k <= Len(rects)

RECURSIVE WidthOnShelf(_, _)
\* The total width of the first m placed rectangles that stand on the shelf
\* at height y (the m-th placement is of rects[m]).
WidthOnShelf(y, m) ==
    IF m = 0 THEN 0
    ELSE (IF output_positions[m][2][2] = y THEN rects[m][2][1] ELSE 0)
         + WidthOnShelf(y, m - 1)

\* The remaining width of shelf n: the space size minus the total width of
\* the rectangles already on it.
Remaining(n) == space_size - WidthOnShelf(levels[n].y, Len(output_positions))

\* C1: when pack_rects has returned, no two placed rectangles overlap: for
\* all i # j the half-open rectangles [pos_i, pos_i + size_i) and
\* [pos_j, pos_j + size_j) have an empty intersection.
C1_NoOverlap ==
    pack_pc = "done" =>
        \A i, j \in 1..Len(rect_sizes) :
            i # j => Disjoint(positions[i], rect_sizes[i], positions[j], rect_sizes[j])

\* C1 witness: three rectangles were placed, two of them on one shelf and
\* the third on another shelf.
C1_Witness ==
    /\ pack_pc = "done"
    /\ Len(positions) = 3
    /\ Len(levels) = 2

\* C2: when pack_rects has returned, every placed rectangle lies inside the
\* returned square: pos.x >= 0, pos.y >= 0, pos.x + width <= space size and
\* pos.y + height <= space size.
C2_InsideSquare ==
    pack_pc = "done" =>
        \A k \in 1..Len(rect_sizes) :
            /\ positions[k][1] >= 0
            /\ positions[k][2] >= 0
            /\ positions[k][1] + rect_sizes[k][1] <= space_size
            /\ positions[k][2] + rect_sizes[k][2] <= space_size

\* C3: pack_rects returns exactly one position per input rectangle and the
\* k-th returned position is the one at which the k-th input rectangle was
\* placed; an empty input returns an empty list and the initial space size.
C3_InputOrder ==
    pack_pc = "done" =>
        /\ Len(positions) = Len(rect_sizes)
        /\ \A k \in 1..Len(rect_sizes) :
              \E n \in 1..Len(output_positions) :
                  /\ rects[n] = <<k - 1, rect_sizes[k]>>
                  /\ output_positions[n] = <<k - 1, positions[k]>>
        /\ rect_sizes = <<>> => positions = <<>> /\ space_size = initial_space_size

\* C3 witness: the sort by height changed the order, so the returned list
\* is not in placement order.
C3_Witness ==
    /\ pack_pc = "done"
    /\ Len(rect_sizes) >= 2
    /\ rects # Enumerate(rect_sizes)
    /\ positions # [n \in 1..Len(output_positions) |-> output_positions[n][2]]

\* C4: pack_rects terminates: each failed attempt doubles the space size,
\* each new attempt restarts placing all rectangles, and eventually an
\* attempt has placed every rectangle and the call returns.
C4_Terminates ==
    /\ [][(InForBody /\ pack_pc' = "while") => space_size' = 2 * space_size]_vars
    /\ [][(pack_pc = "while" /\ pack_pc' = "for") =>
              (output_positions' = <<>> /\ levels' = <<>> /\ pack_k' = 1)]_vars
    /\ <>(pack_pc = "done" /\ Len(output_positions) = Len(rects))

\* C4 witness: the call returned after at least one attempt had failed.
C4_Witness ==
    /\ pack_pc = "done"
    /\ space_size > initial_space_size
    /\ Len(rect_sizes) >= 2

\* C5 (as claimed): a rectangle whose width exactly equals a shelf's remaining
\* width is rejected by that shelf: when it is placed, it is not placed on
\* that shelf.
C5_FlushRejected ==
    [][InForBody =>
          \A n \in 1..Len(levels) :
              (CurRect[1] = Remaining(n) /\ Len(output_positions') > Len(output_positions))
                  => Last(output_positions')[2][2] # levels[n].y]_vars

\* C5 (amended): a shelf accepts a rectangle exactly when the rectangle is
\* not higher than the shelf and not wider than the shelf's remaining width;
\* the rectangle goes on the first such shelf, also when it is exactly as
\* wide as the remaining width, and then ends flush with the space size.
C5_FlushAccepted ==
    [][InForBody =>
          LET good == {n \in 1..Len(levels) :
                          CurRect[2] <= levels[n].height /\ CurRect[1] <= Remaining(n)}
              n == MinOf(good)
          IN  IF good # {}
              THEN /\ Len(levels') = Len(levels)
                   /\ output_positions' =
                          Append(output_positions,
                                 <<rects[pack_k][1],
                                   <<space_size - Remaining(n), levels[n].y>>>>)
              ELSE \/ Len(levels') = Len(levels) + 1
                   \/ pack_pc' = "while"]_vars

\* C5 witness: a rectangle that is not the first on its shelf ends exactly
\* at the space size: it was exactly as wide as the remaining width.
C5_Witness ==
    /\ pack_pc = "for"
    /\ \E m \in 1..Len(output_positions) :
          /\ output_positions[m][2][1] > 0
          /\ output_positions[m][2][1] + rects[m][2][1] = space_size

\* ------------------------------------------------------------------------
\* Properties of merge_overlapping_islands
\* ------------------------------------------------------------------------
\* The inner loop is about to compare island i with island j.
InCompare == merge_pc = "inner" /\ merge_j < Len(islands)

\* The bounds a and b are apart: a gap lies between them on some axis.
Apart(a, b) ==
    \/ a.max[1] < b.min[1]
    \/ b.max[1] < a.min[1]
    \/ a.max[2] < b.min[2]
    \/ b.max[2] < a.min[2]

\* The bounds a and b share more than boundary points.
InteriorsMeet(a, b) ==
    /\ a.min[1] < b.max[1] /\ b.min[1] < a.max[1]
    /\ a.min[2] < b.max[2] /\ b.min[2] < a.max[2]

\* The bounds a and b only touch, along an edge or at a corner.
TouchOnly(a, b) == ~Apart(a, b) /\ ~InteriorsMeet(a, b)

\* C6: when merge_overlapping_islands returns, no two islands of the list
\* have overlapping bounds.
C6_NoOverlapOnReturn ==
    merge_pc = "done" =>
        \A a, b \in 1..Len(islands) : a # b => Apart(islands[a], islands[b])

\* C7: a second call on the returned list performs no merge and leaves the
\* list as it is.
C7_Idempotent == [][merge_again => islands' = islands]_vars

\* C8 (as claimed): two islands whose bounds only touch are not merged when
\* the inner loop compares them.
C8_TouchingNotMerged ==
    [][(InCompare /\ TouchOnly(islands[merge_i + 1], islands[merge_j + 1]))
          => islands' = islands]_vars

\* C8 (amended): the overlap test is not strict: the inner loop merges island
\* j into island i exactly when no gap lies between their bounds, so islands
\* whose bounds only touch along an edge or at a corner are merged too, and
\* only islands with a gap between them on some axis are left as they are.
C8_TouchingMerged ==
    [][InCompare =>
          LET a == islands[merge_i + 1]
              b == islands[merge_j + 1]
          IN  IF Apart(a, b)
              THEN islands' = islands
              ELSE /\ Len(islands') = Len(islands) - 1
                   /\ islands'[merge_i + 1].min = ElemMin(a.min, b.min)
                   /\ islands'[merge_i + 1].max = ElemMax(a.max, b.max)
                   /\ islands'[merge_i + 1].uv_faces = a.uv_faces \o b.uv_faces]_vars

\* C8 witness: the first call has reached a comparison of two islands whose
\* bounds only touch: island i has positive width and height, island j is
\* not a single point, and they meet only in boundary points.
C8_Witness ==
    /\ InCompare
    /\ ~merge_again
    /\ LET a == islands[merge_i + 1]
           b == islands[merge_j + 1]
       IN  /\ TouchOnly(a, b)
           /\ a.min[1] < a.max[1] /\ a.min[2] < a.max[2]
           /\ b.min # b.max

\* ------------------------------------------------------------------------
\* Properties of Grid construction
\* ------------------------------------------------------------------------
\* The faces passed are the whole patch and no edge is a seam.
WholeSeamlessPatch ==
    /\ mesh.kind = "patch"
    /\ grid_sel = PatchFaces(mesh.cols, mesh.rows)
    /\ mesh.seam = {}

\* The set of the coordinates of the walked faces.
GridCoords == {grid_faces[f].coord : f \in DOMAIN grid_faces}

\* The Grid is the rectangle of w columns and h rows: one coordinate per
\* face, all different, filling {0..w-1} x {0..h-1}, and size = (w, h).
IsRectangle(w, h) ==
    /\ \A f, g \in DOMAIN grid_faces :
          f # g => grid_faces[f].coord # grid_faces[g].coord
    /\ Cardinality(GridCoords) = mesh.cols * mesh.rows
    /\ GridCoords = (0..(w - 1)) \X (0..(h - 1))
    /\ grid_size = <<w, h>>

\* C9 as stated: for an N-column by M-row seamless patch of consistently
\* wound quads, the Grid built has N * M pairwise distinct coordinates
\* covering {0..N-1} x {0..M-1} and size (N, M), whatever the start face and
\* its first edge.
C9_SizeIsColsRows ==
    (grid_pc = "built" /\ WholeSeamlessPatch)
        => IsRectangle(mesh.cols, mesh.rows)

\* C9 amended: for an N-column by M-row seamless patch of consistently wound
\* quads, the Grid built has N * M pairwise distinct coordinates, and they
\* cover {0..N-1} x {0..M-1} with size (N, M) when the first edge of the
\* start face lies on a row line of the patch, {0..M-1} x {0..N-1} with size
\* (M, N) when it lies on a column line.
C9_SizeUpToTranspose ==
    (grid_pc = "built" /\ WholeSeamlessPatch)
        => IF grid_first_edge[1] = "h"
           THEN IsRectangle(mesh.cols, mesh.rows)
           ELSE IsRectangle(mesh.rows, mesh.cols)

\* A Grid built for a whole seamless patch of 3 columns and 2 rows, from a
\* start face whose first edge lies on a column line.
C9_Witness ==
    /\ grid_pc = "built"
    /\ WholeSeamlessPatch
    /\ mesh.cols = 3 /\ mesh.rows = 2
    /\ grid_first_edge[1] = "v"
    /\ grid_size = <<2, 3>>

\* Two faces of the set share an edge that is not a seam.
Adjacent(f, g) ==
    /\ f # g
    /\ \E e \in Range(mesh.sides[f]) :
          e \in Range(mesh.sides[g]) /\ e \notin mesh.seam

RECURSIVE ReachFrom(_)
\* The faces of the set reachable from those of R over non-seam edges
\* between faces of the set.
ReachFrom(R) ==
    LET more == {g \in grid_sel \ R : \E f \in R : Adjacent(f, g)}
    IN  IF more = {} THEN R ELSE ReachFrom(R \cup more)

Unreachable == grid_sel \ ReachFrom({grid_start})

HasNonQuad == \E f \in grid_sel : Len(mesh.sides[f]) # 4

\* C11: if a face passed to the Grid does not have exactly 4 edges,
\* construction fails with GridBuildException, the error type the calling
\* operators catch and report.
C11_NonQuadRaisesGridBuildException ==
    (grid_pc # "idle" /\ HasNonQuad)
        => (grid_pc = "raised" /\ grid_error = "GridBuildException")

\* C12: after a successful construction on a seam-connected set of quads,
\* whatever the topology (patch, ring, fan), no two faces have the same
\* grid coordinate.
C12_UniqueCoords ==
    grid_pc = "built"
        => \A f, g \in DOMAIN grid_faces :
              f # g => grid_faces[f].coord # grid_faces[g].coord

\* ------------------------------------------------------------------------
\* Properties of copy_region_transformed
\* ------------------------------------------------------------------------
\* The pixels of the region src_rect are the same in the array copied back
\* as in the source.
RegionReproduced ==
    \A x \in tex_rect.min[1]..(tex_rect.max[1] - 1) :
       \A y \in tex_rect.min[2]..(tex_rect.max[2] - 1) :
          GetPixel(tex_back, tex_size, x, y) = GetPixel(tex_src, tex_size, x, y)

\* The region turned by 90 degrees about its centre is made of whole pixels
\* (its width and height are both even or both odd) and lies inside the
\* array.
TurnedRegionFits ==
    LET w == tex_rect.max[1] - tex_rect.min[1]
        h == tex_rect.max[2] - tex_rect.min[2]
        c2 == Centre2(tex_rect)
    IN  /\ (w + h) % 2 = 0
        /\ c2[1] - h >= 0 /\ c2[1] + h <= 2 * tex_size[1]
        /\ c2[2] - w >= 0 /\ c2[2] + w <= 2 * tex_size[2]

\* C16 as stated: for every rectangular region inside the buffer, copying it
\* under a 90-degree rotation about the region centre and copying the result
\* back under the inverse rotation reproduces every pixel of the region.
C16_RoundTripAnyRegion ==
    (tex_pc = "back" /\ tex_kind = "rot") => RegionReproduced

\* C16 amended: the round trip reproduces every pixel of the region when the
\* width and height of the region are both even or both odd and the turned
\* region lies inside the buffer.
C16_RoundTripAlignedRegion ==
    (tex_pc = "back" /\ tex_kind = "rot" /\ TurnedRegionFits) => RegionReproduced

\* A region that is not a square was turned, copied back and reproduced.
C16_Witness ==
    /\ tex_pc = "back"
    /\ tex_kind = "rot"
    /\ TurnedRegionFits
    /\ RectSize(tex_rect) = <<1, 3>>
    /\ RegionReproduced

\* The pixels of the destination that the copy has changed.
Written ==
    {p \in (0..(tex_size[1] - 1)) \X (0..(tex_size[2] - 1)) :
        GetPixel(tex_dst, tex_size, p[1], p[2]) # 0}

\* The bounding box of the transformed region corners, in whole pixels.
CornerBox ==
    LET cs == DstCorners2(tex_rect, tex_transform)
        xs == {p[1] : p \in cs}
        ys == {p[2] : p \in cs}
    IN  (Floor2(MinOf(xs))..(Ceil2(MaxOf(xs)) - 1))
            \X (Floor2(MinOf(ys))..(Ceil2(MaxOf(ys)) - 1))

\* C17: the copy writes only pixels (x, y) of the destination with
\* 0 <= x < width, 0 <= y < height inside the bounding box of the transformed
\* region corners; every other pixel keeps its value and the length of the
\* pixel list is unchanged.
C17_WritesOnlyInsideBox ==
    tex_pc = "copied"
        => /\ Written = CornerBox \cap ((0..(tex_size[1] - 1)) \X (0..(tex_size[2] - 1)))
           /\ Len(tex_dst) = tex_size[1] * tex_size[2]

\* A copy whose box sticks out of the destination on the low side: part of
\* it was written, part of it fell outside.
C17_Witness ==
    /\ tex_pc = "copied"
    /\ Written # {}
    /\ \E p \in CornerBox : p[1] < 0 \/ p[2] < 0
    /\ Len(tex_dst) = tex_size[1] * tex_size[2]

\* ------------------------------------------------------------------------
\* Properties of the operators
\* ------------------------------------------------------------------------
\* The uv of the islands and the pixels of the texture when the call started.
UvAtStart == [k \in 1..Len(op_islands) |-> CornerUVs(op_islands[k].rect)]

PixelsAtStart ==
    IF op_texture.present
    THEN DistinctPixels(<<op_texture.size, op_texture.size>>)
    ELSE <<>>

\* Every uv and every pixel has the value it had when the call started.
NothingChanged == op_uv = UvAtStart /\ op_pixels = PixelsAtStart

\* C18: whenever a call of unwrap_grid, uv_flip, uv_rot_90,
\* island_to_free_space or repack_uvs reports an error and returns CANCELLED,
\* every uv and every pixel has the value it had when the call started, also
\* when the error comes up at the second or a later group or island.
C18_CancelledChangesNothing ==
    (/\ op_pc = "done"
     /\ op_name \in {"unwrap_grid", "uv_flip", "uv_rot_90", "island_to_free_space",
                     "repack_uvs"}
     /\ op_result = "CANCELLED")
    => NothingChanged

\* Island k is wider and higher than the texture: no position of the
\* texture holds it, turned or not, and no packing of the texture size.
TooLarge(k) ==
    LET size == RectSize(op_islands[k].rect)
    IN  size[1] > op_texture.size /\ size[2] > op_texture.size

\* The out-of-space errors: ERROR_NO_TEXTURE_SPACE and the message of
\* uv_rot_90.
NoSpaceErrors ==
    {ERROR_NO_TEXTURE_SPACE,
     "Not enough free space on texture to rotate island. Increase texture size or turn off 'Modify Texture'"}

\* C19: with modify_texture, when a selected island has no space on the
\* texture, repack_uvs, island_to_free_space and uv_rot_90 report the
\* out-of-space error, and no uv and no pixel has been changed when they do.
C19_NoSpaceReportedBeforeAnyChange ==
    (/\ op_pc = "done"
     /\ op_name \in {"repack_uvs", "island_to_free_space", "uv_rot_90"}
     /\ op_modify
     /\ op_texture.present
     /\ ~op_texture.dirty
     /\ ~AnyMulti
     /\ op_report # ERROR_SELECT_ALL_FACES_USING_MATERIAL
     /\ \E k \in 1..Len(op_islands) : TooLarge(k))
    => (op_result = "CANCELLED" /\ op_report \in NoSpaceErrors /\ NothingChanged)

\* The call writes texture pixels if it runs to its end.
PixelDestructive ==
    \/ op_name = "resize_texture"
    \/ /\ op_modify
       /\ op_name \in {"repack_uvs", "island_to_free_space", "uv_flip", "uv_rot_90"}

\* C20: every pixel-destructive call on a texture with unsaved changes is
\* cancelled with the dirty-texture error, and it writes no texture pixel
\* (calls that an earlier check of the selection has ended are left out).
C20_DirtyTextureCancelsBeforeWrite ==
    (/\ op_pc = "done"
     /\ PixelDestructive
     /\ op_texture.dirty
     /\ op_report \notin {ERROR_MULTIPLE_MATERIALS,
                          ERROR_SELECT_ALL_FACES_USING_MATERIAL})
    => (op_result = "CANCELLED" /\ op_report = ERROR_TEXTURE_DIRTY /\ op_writes = 0)

\* ------------------------------------------------------------------------
\* Properties of get_islands_for_faces
\* ------------------------------------------------------------------------
\* Two faces passed share a key.
ShareKey(f, g) == cc_loops[f + 1] \cap cc_loops[g + 1] # {}

RECURSIVE LinkedTo(_)
\* The faces passed that a chain of faces passed, consecutive ones sharing
\* a key, links to a face of S.
LinkedTo(S) ==
    LET more == S \cup {g \in cc_faces : \E f \in S : ShareKey(f, g)}
    IN  IF more = S THEN S ELSE LinkedTo(more)

\* The islands returned that hold the face.
IslandsOf(f) == {k \in 1..Len(cc_components) : f \in Range(cc_components[k])}

\* C21: get_islands_for_faces returns a partition of the faces passed: every
\* face passed is in exactly one island and once in it, no island is empty,
\* no other face is in an island, and two faces are in the same island
\* exactly when a chain of faces passed links them through shared keys.
C21_IslandsPartitionFaces ==
    cc_pc = "done" =>
        /\ \A f \in cc_faces : Cardinality(IslandsOf(f)) = 1
        /\ \A k \in 1..Len(cc_components) :
              /\ cc_components[k] # <<>>
              /\ Range(cc_components[k]) \subseteq cc_faces
              /\ Cardinality(Range(cc_components[k])) = Len(cc_components[k])
        /\ \A f, g \in cc_faces : (IslandsOf(f) = IslandsOf(g)) <=> (g \in LinkedTo({f}))

\* Three faces were passed of which the first and the last share no key and
\* are in one island through the second.
C21_Witness ==
    /\ cc_pc = "done"
    /\ cc_faces = {0, 1, 2}
    /\ ~ShareKey(0, 2)
    /\ Len(cc_components) = 1

\* ------------------------------------------------------------------------
\* Conservation in merge_overlapping_islands
\* ------------------------------------------------------------------------
RECURSIVE AllFaces(_)
\* The faces of all the islands of a list, in one list.
AllFaces(lst) ==
    IF lst = <<>> THEN <<>> ELSE Head(lst).uv_faces \o AllFaces(Tail(lst))

\* How often the face is in the list.
CountIn(f, s) == Cardinality({k \in 1..Len(s) : s[k] = f})

\* The islands passed that the returned island has absorbed: those whose
\* faces it holds.
Absorbed(island) ==
    {k \in 1..Len(merge_input) :
        Range(merge_input[k].uv_faces) \subseteq Range(island.uv_faces)}

RECURSIVE SumNumUv(_)
SumNumUv(S) ==
    IF S = {} THEN 0
    ELSE LET k == CHOOSE x \in S : TRUE
         IN  merge_input[k].num_uv + SumNumUv(S \ {k})

\* C22: merge_overlapping_islands conserves faces and bounds: the faces of
\* the returned islands are, as a multiset, the faces of the islands passed;
\* the min and max of each returned island are the element-wise min and max
\* over the islands it absorbed, and its num_uv is the sum of theirs.
C22_MergeConserves ==
    merge_pc = "done" =>
        /\ \A f \in Range(AllFaces(merge_input)) \cup Range(AllFaces(islands)) :
              CountIn(f, AllFaces(islands)) = CountIn(f, AllFaces(merge_input))
        /\ \A a \in 1..Len(islands) :
              LET of == Absorbed(islands[a])
              IN  /\ of # {}
                  /\ \A c \in 1..2 :
                        /\ islands[a].min[c] = MinOf({merge_input[k].min[c] : k \in of})
                        /\ islands[a].max[c] = MaxOf({merge_input[k].max[c] : k \in of})
                  /\ islands[a].num_uv = SumNumUv(of)

\* A first call on three islands has returned two: one that absorbed two of
\* the islands passed, whose bounds differ, and one left as it was.
C22_Witness ==
    /\ merge_pc = "done"
    /\ ~merge_again
    /\ Len(merge_input) = 3
    /\ Len(islands) = 2
    /\ \E a \in 1..2 :
          /\ Cardinality(Absorbed(islands[a])) = 2
          /\ \E k \in Absorbed(islands[a]) : merge_input[k].min # islands[a].min

\* ------------------------------------------------------------------------
\* Properties of realign_to_uv_map
\* ------------------------------------------------------------------------
\* C23: after realign_to_uv_map on the grid of a rectangular patch, whatever
\* the transposition and the flips applied: a face g that shares the edge
\* f.edge(d) of a face f has g.coord = f.coord + d.vector(), and the coords
\* are pairwise distinct and inside [0, size.x) x [0, size.y).
C23_RealignKeepsEdgesConsistent ==
    rl_pc = "done" =>
        \A f \in DOMAIN rl_faces :
            /\ rl_faces[f].coord[1] \in 0..(rl_size[1] - 1)
            /\ rl_faces[f].coord[2] \in 0..(rl_size[2] - 1)
            /\ \A g \in DOMAIN rl_faces \ {f} :
                  /\ rl_faces[g].coord # rl_faces[f].coord
                  /\ \A d \in 0..3 :
                        rl_faces[f].edges[d + 1] \in Range(rl_faces[g].edges)
                            => rl_faces[g].coord
                                   = VAdd(rl_faces[f].coord, DirVector(d))

\* ------------------------------------------------------------------------
\* The result of Grid.fold
\* ------------------------------------------------------------------------
\* The block of a coordinate on one axis is mirrored.
Mirrored(x, section) == fold_args.alternate /\ (x \div section) % 2 = 1

\* The target coordinate on one axis: x mod section, counted from the other
\* end of the section in a mirrored block.
TargetOnAxis(x, section) ==
    IF Mirrored(x, section) THEN section - 1 - (x % section) ELSE x % section

\* The u (axis 1) or v (axis 2) of the two loops of a face on its edge in
\* direction dir.
SideValues(uv, dir, axis) == {uv[LoopsOn(dir)[n]][axis] : n \in 1..2}

\* C24: fold maps the face at (x, y) to (tx, ty) with W = ceil(size.x /
\* x_sections), tx = x mod W, replaced by W - 1 - tx when alternate is set
\* and floor(x / W) is odd, and the same for y; after fold every face
\* outside block (0,0) whose target face exists has the target's west and
\* east u and south and north v, swapped exactly in mirrored blocks,
\* whatever the order in which the faces were gone through.
C24_FoldOverlaysTarget ==
    fold_pc = "done" =>
        \A n \in 1..Len(fold_coords) :
            LET sec == <<CeilDiv(fold_size[1], fold_args.x_sections),
                         CeilDiv(fold_size[2], fold_args.y_sections)>>
                x == fold_coords[n][1]
                y == fold_coords[n][2]
                target == <<TargetOnAxis(x, sec[1]), TargetOnAxis(y, sec[2])>>
                mx == Mirrored(x, sec[1])
                my == Mirrored(y, sec[2])
            IN  \A t \in 1..Len(fold_coords) :
                    (~InBlock00(n) /\ fold_coords[t] = target) =>
                        /\ n \in fold_written
                        /\ SideValues(fold_uv[n], WEST, 1)
                              = SideValues(fold_uv[t], IF mx THEN EAST ELSE WEST, 1)
                        /\ SideValues(fold_uv[n], EAST, 1)
                              = SideValues(fold_uv[t], IF mx THEN WEST ELSE EAST, 1)
                        /\ SideValues(fold_uv[n], SOUTH, 2)
                              = SideValues(fold_uv[t], IF my THEN NORTH ELSE SOUTH, 2)
                        /\ SideValues(fold_uv[n], NORTH, 2)
                              = SideValues(fold_uv[t], IF my THEN SOUTH ELSE NORTH, 2)

\* fold has returned on a grid of three columns folded in two sections, the
\* faces gone through from the last row down: a face of the mirrored second
\* section was laid on its target, another face has no target.
C24_Witness ==
    /\ fold_pc = "done"
    /\ fold_size[1] = 3
    /\ fold_args.x_sections = 2
    /\ fold_args.alternate
    /\ fold_coords[1] # <<0, 0>>
    /\ \E n \in fold_written : fold_coords[n][1] = 2
    /\ \E n \in 1..Len(fold_coords) : ~InBlock00(n) /\ n \notin fold_written

\* ------------------------------------------------------------------------
\* Properties of copy_texture_region
\* ------------------------------------------------------------------------
\* The pixel of the list at <<x, y>> of the texture, the position wrapped.
PixelAt(pixels, p) ==
    pixels[((p[2] % ctr_size[2]) * ctr_size[1]) + (p[1] % ctr_size[1]) + 1]

\* The position is inside the texture.
InTexture(p) == p[1] \in 0..(ctr_size[1] - 1) /\ p[2] \in 0..(ctr_size[2] - 1)

\* C25: copy_texture_region reads from a snapshot taken before any write:
\* also when source and destination overlap, every destination pixel
\* dst_pos + (i, j) inside the texture holds the value the pixel at
\* src_pos + (i, j), wrapped around, had before the call, and the snapshot is
\* not modified.
C25_CopyReadsSnapshot ==
    ctr_pc = "done" =>
        /\ ctr_src = ctr_before
        /\ \A i \in 0..(ctr_args.size[1] - 1), j \in 0..(ctr_args.size[2] - 1) :
              LET d == VAdd(ctr_args.dst_pos, <<i, j>>)
              IN  InTexture(d) =>
                      PixelAt(ctr_pixels, d)
                          = PixelAt(ctr_before, VAdd(ctr_args.src_pos, <<i, j>>))

\* A region two pixels wide inside the texture was copied one pixel to the
\* right, inside the texture: its second column is read after it was
\* written.
C25_Witness ==
    /\ ctr_pc = "done"
    /\ ctr_args.size[1] = 2
    /\ ctr_args.dst_pos = VAdd(ctr_args.src_pos, <<1, 0>>)
    /\ InTexture(ctr_args.src_pos)
    /\ InTexture(VAdd(ctr_args.dst_pos, <<1, ctr_args.size[2] - 1>>))
    /\ ctr_pixels # ctr_before

\* ------------------------------------------------------------------------
\* The pixels of the islands island_to_free_space moves
\* ------------------------------------------------------------------------
\* Island k lies inside the texture when the call starts.
InsideTexture(k) ==
    /\ op_islands[k].rect.max[1] <= op_texture.size
    /\ op_islands[k].rect.max[2] <= op_texture.size

\* The pixel rectangle island k has now holds, pixel by pixel, the values
\* its pixel rectangle held when the call started.
PixelsMovedAlong(k) ==
    LET old == op_islands[k].rect
        new == CalcPixelBounds(op_uv[k])
        size == <<op_texture.size, op_texture.size>>
    IN  \A i \in 0..(RectSize(old)[1] - 1), j \in 0..(RectSize(old)[2] - 1) :
            GetPixel(op_pixels, size, new.min[1] + i, new.min[2] + j)
                = GetPixel(PixelsAtStart, size, old.min[1] + i, old.min[2] + j)

LoopEdges(loop) ==
    [n \in 1..Len(loop) |-> {loop[n], loop[(n % Len(loop)) + 1]}]

RECURSIVE AllLoopEdges(_)
\* The edges along all the loops of a list, in one list.
AllLoopEdges(loops) ==
    IF loops = <<>> THEN <<>>
    ELSE LoopEdges(Head(loops)) \o AllLoopEdges(Tail(loops))

\* No loop found is empty, and the loops run along the boundary edges, each
\* edge once.
LoopsCoverBoundary ==
    /\ \A n \in 1..Len(bl_loops) : bl_loops[n] # <<>>
    /\ Range(AllLoopEdges(bl_loops)) = BoundaryEdges(bl_faces)
    /\ Len(AllLoopEdges(bl_loops)) = Cardinality(BoundaryEdges(bl_faces))

\* C27: for every island, also one with a boundary vert on four boundary
\* edges, get_boundary_loops terminates: it raises, or it returns loops none
\* of which is empty, closed, in which every edge used by exactly one face
\* of the island is exactly once; and it puts no empty loop on its list.
C27_BoundaryLoopsEndWell ==
    /\ [](\A n \in 1..Len(bl_loops) : bl_loops[n] # <<>>)
    /\ <>[](bl_pc = "raised" \/ (bl_pc = "returned" /\ LoopsCoverBoundary))

C29_QuadGroupBuilds ==
    /\ grid_pc # "raised"
    /\ grid_error = "none"
    /\ grid_pc # "idle" =>
          /\ \A f \in grid_sel : Len(mesh.sides[f]) = 4
          /\ Unreachable = {}

\* A Grid was built of a quad group of two or more faces that a seam or a
\* triangle parts from other selected faces of the mesh.
C29_Witness ==
    /\ grid_pc = "built"
    /\ Cardinality(grid_sel) >= 2
    /\ \/ \E f \in DOMAIN mesh.sides \ grid_sel : Len(mesh.sides[f]) = 3
       \/ /\ mesh.seam # {}
          /\ \E f \in DOMAIN mesh.sides \ grid_sel : Len(mesh.sides[f]) = 4

\* ------------------------------------------------------------------------
\* find_corner_points
\* ------------------------------------------------------------------------
\* The sequence s read from its element k + 1 on, around.
RotatedBy(s, k) == SubSeq(s, k + 1, Len(s)) \o SubSeq(s, 1, k)

\* The loop indices follow the boundary, one way round or the other, from
\* some corner on.
InCyclicOrder(s) ==
    \E k \in 0..(Len(s) - 1) :
        LET r == RotatedBy(s, k)
        IN  \/ \A n \in 1..(Len(r) - 1) : r[n] < r[n + 1]
            \/ \A n \in 1..(Len(r) - 1) : r[n] > r[n + 1]

\* C30: find_corner_points raises ValueError whenever the loop indices of
\* the four matched corners, taken in corner order (bottom left, bottom
\* right, top right, top left), are not in cyclic boundary order.
C30_TwistedCornersRaise ==
    (/\ cp_pc \in {"returned", "raised"}
     /\ Len(cp_ordered_indices) = 4
     /\ ~InCyclicOrder(cp_ordered_indices))
        => (cp_pc = "raised" /\ cp_error = "ValueError")

============================================================================
